---- MODULE Spec2Model ----
(***************************************************************************)
(* State-machine model of the ingestion core of iv-ingestion:              *)
(*   - the sliding-window rate limiter   (middleware/rateLimiter.js)       *)
(*   - the webhook dispatcher            (src/services/webhookService.js)  *)
(*   - the file-processing worker        (src/workers/processor.js)        *)
(* Each subsystem has its own specification (SpecRL, SpecWH, SpecJob);     *)
(* Spec is their interleaving.  Times are in milliseconds, as Date.now().  *)
(***************************************************************************)
EXTENDS Integers, Sequences, FiniteSets, TLC

(***************************************************************************)
(* Bounds of the model                                                     *)
(***************************************************************************)
MaxConcurrent == 2      \* request handlers of one identity running at once
MaxRequests == 3        \* requests the identity makes in one behaviour
MaxTicks == 2           \* clock advances of the limiter's clock
Headroom == 2           \* a warmed-up bucket starts with limit-Headroom..limit entries
MaxPrefill == 100       \* largest quota for which a warmed-up bucket is enumerated
MaxRedisFaults == 1     \* limiter operations that may reject in one behaviour
MaxWebhooks == 2        \* subscriptions registered in one behaviour
MaxEvents == 2          \* events triggered in one behaviour
MaxFailingEvents == 1   \* events triggered in a behaviour in which a delivery fails
MaxFindings == 2        \* findings extracted from one file
MaxSends == 5           \* times the SDK client sends one request
MaxKeywords == 2        \* severity keywords in the description of one finding
MaxJobs == 3            \* jobs handed to the handlers of one process
MaxSubscribers == 9     \* webhooks subscribed to one event type

VARIABLES
  rlTier,       \* value of redis key user:<id>:tier
  rlBucket,     \* bucket whose key rate_limit:<bucket>:<identity> is observed
  rlLog,        \* the key's sorted set: member = score = Date.now() of the record
  rlExpireAt,   \* time at which the key's TTL elapses, NoExpiry if no TTL is set
  rlNow,        \* Date.now()
  rlTicks,      \* clock advances so far
  rlPc,         \* position of each request handler
  rlLocal,      \* locals of each handler: the `now` of recordRequest, `remaining`
  rlStarted,    \* requests started so far
  rlAdmitted,   \* times at which a handler called next(), in order
  rlDenied,     \* 429 responses sent: status, code, details, Retry-After header
  rlFaults,     \* limiter operations that rejected so far
  rlOverlap     \* whether a request ever arrived while another was being handled

rlVars == <<rlTier, rlBucket, rlLog, rlExpireAt, rlNow, rlTicks, rlPc, rlLocal,
            rlStarted, rlAdmitted, rlDenied, rlFaults, rlOverlap>>

VARIABLES
  whMap,      \* keys of this.webhooks
  whObj,      \* the webhook objects; a retry timer's closure keeps a deleted one alive
  whCreated,  \* webhooks registered so far (ids are fresh random strings)
  whTrig,     \* per event id: its type, the registry at the time of triggerEvent, and
              \* what triggerEvent returned
  whChain,    \* per (event, webhook): the delivery chain deliverWebhook/scheduleRetry runs
  whHandled   \* what axios.post gave deliverWebhook in the latest step, NoResponse if
              \* the latest step was not the end of a request

whVars == <<whMap, whObj, whCreated, whTrig, whChain, whHandled>>

VARIABLES
  jobState,         \* Bull's state of the job: none | waiting | active | delayed | completed | failed
  jobFileType,      \* job.data.fileType
  jobAttemptsMade,  \* Bull's job.attemptsMade
  jobPc,            \* position of processFileJob
  jobParsed,        \* processedData returned by processFile
  fileRec,          \* the job's row of table files
  trx,              \* writes staged in the open knex transaction
  db,               \* committed rows of properties, inspections, findings
  globalIO,         \* whether setGlobalIO has installed a Socket.IO instance
  jobEmitted,       \* per event name, how often emitStatusUpdate sent it
  jobRuns,          \* how often Bull has called processFileJob
  jobDiscarded,     \* staged writes discarded by rollbacks
  jobInvoked,       \* the parsers whose parse() processFile has called for the job
  jobError,         \* the error processFileJob has caught, NoError outside its catch block
  jobTimer,         \* ms left of the delay Bull gave the delayed job
  jobWaited,        \* ms the job has spent delayed since its last failure
  jobGaps,          \* per retry, the ms between the failure and the promotion to waiting
  jobLastReported,  \* the last progress value the running attempt has reported, Null if none
  jobStagesDone     \* the stages that have returned in the running attempt

jobVars == <<jobState, jobFileType, jobAttemptsMade, jobPc, jobParsed, fileRec, trx, db,
             globalIO, jobEmitted, jobRuns, jobDiscarded, jobInvoked, jobError,
             jobTimer, jobWaited, jobGaps, jobLastReported, jobStagesDone>>

VARIABLES
  sdkUpload,   \* the promise uploadFile returned: none | pending | resolved | rejected
  sdkReq,      \* the httpClient request under way: its caller, position and number of sends
  sdkMon,      \* monitorProcessing: position of poll and its attempts counter
  sdkEmitted   \* the events the client has emitted, with the file status they carry

sdkVars == <<sdkUpload, sdkReq, sdkMon, sdkEmitted>>

VARIABLES
  vfPayload,    \* verifySignature: the payload argument
  vfSecret,     \* verifySignature: the secret argument
  vfSignature,  \* verifySignature: the signature argument, a string of characters
  vfResult      \* what the call gave: none (not called) | true | false | throws

vfVars == <<vfPayload, vfSecret, vfSignature, vfResult>>

VARIABLES
  sevDescription,  \* extractFindings: the keywords the lower-cased description includes
  sevResult        \* the severity extractFindings gave the finding, "none" before the call

sevVars == <<sevDescription, sevResult>>

VARIABLES
  fanSubscribers,  \* active webhooks subscribed to the event type
  fanTriggered,    \* whether triggerEvent has been called for the event
  fanDeliveries    \* per position of a delivery chain, how many chains are there

fanVars == <<fanSubscribers, fanTriggered, fanDeliveries>>

VARIABLES
  sdMode,          \* the entry point of the process: worker (processor.js) | server
  sdWorker,        \* position of the worker's gracefulShutdown
  sdServer,        \* position of the server's gracefulShutdown
  sdQueue,         \* per queue of the worker: open | closing | closed
  sdActive,        \* per queue of the worker: whether a job handler is running
  sdTaken,         \* jobs Bull has handed to the handlers so far
  sdServerQueues,  \* the server's Bull queues: absent | open | closed
  sdConn,          \* per connection: absent | open | closed
  sdExit           \* running | exit0 | exit1

sdVars == <<sdMode, sdWorker, sdServer, sdQueue, sdActive, sdTaken, sdServerQueues, sdConn, sdExit>>

vars == <<rlVars, whVars, jobVars, sdkVars, vfVars, sevVars, fanVars, sdVars>>

(***************************************************************************)
(* Rate limiter: configuration                                             *)
(***************************************************************************)
Tiers == {"free", "pro", "enterprise"}
Buckets == {"api", "files", "webhook", "admin"}
Reqs == 1..MaxConcurrent
NoExpiry == -1
NoHeader == -1          \* a response header that is not set

MinOf(S) == CHOOSE x \in S : \A y \in S : x <= y

tiers ==
  [free       |-> [requests |-> 100,   window |-> 15 * 60, files |-> 10,   fileWindow |-> 24 * 60 * 60],
   pro        |-> [requests |-> 1000,  window |-> 15 * 60, files |-> 100,  fileWindow |-> 24 * 60 * 60],
   enterprise |-> [requests |-> 10000, window |-> 15 * 60, files |-> 1000, fileWindow |-> 24 * 60 * 60]]

\* the (limit, window) pair each middleware passes to isAllowed / recordRequest
BucketLimit(tier, b) ==
  CASE b = "api"     -> tiers[tier].requests
    [] b = "files"   -> tiers[tier].files
    [] b = "webhook" -> 100
    [] b = "admin"   -> 1000

BucketWindow(tier, b) ==
  CASE b = "api"     -> tiers[tier].window
    [] b = "files"   -> tiers[tier].fileWindow
    [] b = "webhook" -> 60 * 60
    [] b = "admin"   -> 15 * 60

Limit == BucketLimit(rlTier, rlBucket)
WindowMs == BucketWindow(rlTier, rlBucket) * 1000

(***************************************************************************)
(* Rate limiter: redis view of the key                                     *)
(***************************************************************************)
\* a key whose TTL has elapsed no longer exists
KeyExpired == rlExpireAt # NoExpiry /\ rlNow >= rlExpireAt
StoredLog == IF KeyExpired THEN {} ELSE rlLog

\* getRateLimitInfo: zrangebyscore(key, now - window*1000, '+inf')
getRateLimitInfo(now, windowMs) ==
  [count |-> Cardinality({x \in StoredLog : x >= now - windowMs}),
   reset |-> now + windowMs]

\* isAllowed: info.count < limit
isAllowed(now, limit, windowMs) == getRateLimitInfo(now, windowMs).count < limit

\* getRemaining: Math.max(0, limit - info.count)
getRemaining(now, limit, windowMs) ==
  LET c == getRateLimitInfo(now, windowMs).count
  IN IF limit - c > 0 THEN limit - c ELSE 0

(***************************************************************************)
(* Rate limiter: the middleware, one action per awaited redis operation    *)
(***************************************************************************)
\* the observed key is either fresh, or warmed up by n earlier sequential admissions made
\* at milliseconds 1..n (each recorded and admitted once), with the clock now at n + 1
RLInit ==
  /\ rlTier \in Tiers
  /\ rlBucket \in Buckets
  /\ rlBucket \in {"webhook", "admin"} => rlTier = "free"
  /\ \E n \in {0} \cup (IF Limit <= MaxPrefill
                          THEN {k \in (Limit - Headroom)..Limit : k >= 0}
                          ELSE {}) :
       /\ rlLog = 1..n
       /\ rlNow = n + 1
       /\ rlAdmitted = [i \in 1..n |-> i]
       /\ rlExpireAt = IF n = 0 THEN NoExpiry ELSE n + WindowMs
  /\ rlTicks = 0
  /\ rlPc = [r \in Reqs |-> "idle"]
  /\ rlLocal = [r \in Reqs |-> [now |-> 0, remaining |-> 0]]
  /\ rlStarted = 0
  /\ rlDenied = {}
  /\ rlFaults = 0
  /\ rlOverlap = FALSE

\* a request reaches the middleware: getClientIdentifier, await getUserTier
RLBegin(r) ==
  /\ rlPc[r] = "idle"
  /\ rlStarted < MaxRequests
  /\ rlStarted' = rlStarted + 1
  /\ rlOverlap' = (rlOverlap \/ \E r2 \in Reqs \ {r} : rlPc[r2] # "idle")
  /\ rlPc' = [rlPc EXCEPT ![r] = "check"]
  /\ UNCHANGED <<rlTier, rlBucket, rlLog, rlExpireAt, rlNow, rlTicks, rlLocal,
                 rlAdmitted, rlDenied, rlFaults>>
  /\ UNCHANGED <<whVars, jobVars, sdkVars, vfVars, sevVars, fanVars, sdVars>>

\* a middleware that records the request before it looks at the answer (faulty variant)
AfterCheckRecordsFirst(allowed) == "zadd"
\* if (!isApiAllowed) { ... return res.status(429) } await this.recordRequest(...)
AfterCheck(allowed) == IF allowed THEN "zadd" ELSE "remaining"

\* await isAllowed(key, limit, window)
RLCheck(r) ==
  /\ rlPc[r] = "check"
  /\ rlPc' = [rlPc EXCEPT ![r] = AfterCheck(isAllowed(rlNow, Limit, WindowMs))]
  /\ UNCHANGED <<rlTier, rlBucket, rlLog, rlExpireAt, rlNow, rlTicks, rlLocal,
                 rlStarted, rlAdmitted, rlDenied, rlFaults>>
  /\ UNCHANGED rlOverlap
  /\ UNCHANGED <<whVars, jobVars, sdkVars, vfVars, sevVars, fanVars, sdVars>>

\* denied: await getRemaining(key, limit, window)
RLDenyRemaining(r) ==
  /\ rlPc[r] = "remaining"
  /\ rlLocal' = [rlLocal EXCEPT ![r].remaining = getRemaining(rlNow, Limit, WindowMs)]
  /\ rlPc' = [rlPc EXCEPT ![r] = "respond"]
  /\ UNCHANGED <<rlTier, rlBucket, rlLog, rlExpireAt, rlNow, rlTicks,
                 rlStarted, rlAdmitted, rlDenied, rlFaults>>
  /\ UNCHANGED rlOverlap
  /\ UNCHANGED <<whVars, jobVars, sdkVars, vfVars, sevVars, fanVars, sdVars>>

\* the `code` of the 429 body each middleware sends
DenyCode(b) ==
  CASE b = "api"     -> "RATE_LIMIT_EXCEEDED"
    [] b = "files"   -> "FILE_LIMIT_EXCEEDED"
    [] b = "webhook" -> "WEBHOOK_LIMIT_EXCEEDED"
    [] b = "admin"   -> "ADMIN_LIMIT_EXCEEDED"

\* Math.ceil(a / b) for positive integers
Ceil(a, b) == (a + b - 1) \div b

\* 'Retry-After' and details.retryAfter: Math.ceil(tierConfig.window / 60), set by the
\* api middleware only
RetryAfter(tier, b) == IF b = "api" THEN Ceil(BucketWindow(tier, b), 60) ELSE NoHeader

\* the oldest entry of the key that is still inside the window, 0 if there is none
OldestInWindow(now, windowMs) ==
  LET inWin == {x \in StoredLog : x >= now - windowMs}
  IN IF inWin = {} THEN 0 ELSE MinOf(inWin)

\* denied: await getRateLimitInfo(key, window); res.status(429).json(...)
RLDenyRespond(r) ==
  /\ rlPc[r] = "respond"
  /\ rlDenied' = rlDenied \cup {[at |-> rlNow,
                                 status |-> 429,
                                 success |-> FALSE,
                                 code |-> DenyCode(rlBucket),
                                 remaining |-> rlLocal[r].remaining,
                                 reset |-> getRateLimitInfo(rlNow, WindowMs).reset,
                                 retryAfter |-> RetryAfter(rlTier, rlBucket),
                                 oldest |-> OldestInWindow(rlNow, WindowMs)]}
  /\ rlPc' = [rlPc EXCEPT ![r] = "idle"]
  /\ UNCHANGED <<rlTier, rlBucket, rlLog, rlExpireAt, rlNow, rlTicks, rlLocal,
                 rlStarted, rlAdmitted, rlFaults>>
  /\ UNCHANGED rlOverlap
  /\ UNCHANGED <<whVars, jobVars, sdkVars, vfVars, sevVars, fanVars, sdVars>>

\* recordRequest: now = Date.now(); await zadd(key, now, now.toString())
RLZadd(r) ==
  /\ rlPc[r] = "zadd"
  /\ rlLog' = StoredLog \cup {rlNow}
  /\ rlExpireAt' = IF KeyExpired THEN NoExpiry ELSE rlExpireAt
  /\ rlLocal' = [rlLocal EXCEPT ![r].now = rlNow]
  /\ rlPc' = [rlPc EXCEPT ![r] = "zrem"]
  /\ UNCHANGED <<rlTier, rlBucket, rlNow, rlTicks, rlStarted, rlAdmitted, rlDenied, rlFaults>>
  /\ UNCHANGED rlOverlap
  /\ UNCHANGED <<whVars, jobVars, sdkVars, vfVars, sevVars, fanVars, sdVars>>

\* recordRequest: await zremrangebyscore(key, '-inf', now - window*1000)
RLZrem(r) ==
  /\ rlPc[r] = "zrem"
  /\ rlLog' = {x \in StoredLog : x > rlLocal[r].now - WindowMs}
  /\ rlExpireAt' = IF KeyExpired THEN NoExpiry ELSE rlExpireAt
  /\ rlPc' = [rlPc EXCEPT ![r] = "expire"]
  /\ UNCHANGED <<rlTier, rlBucket, rlNow, rlTicks, rlLocal, rlStarted, rlAdmitted,
                 rlDenied, rlFaults>>
  /\ UNCHANGED rlOverlap
  /\ UNCHANGED <<whVars, jobVars, sdkVars, vfVars, sevVars, fanVars, sdVars>>

\* recordRequest: await expire(key, window); a missing key gets no TTL
RLExpire(r) ==
  /\ rlPc[r] = "expire"
  /\ rlLog' = StoredLog
  /\ rlExpireAt' = IF StoredLog = {} THEN NoExpiry ELSE rlNow + WindowMs
  /\ rlPc' = [rlPc EXCEPT ![r] = "next"]
  /\ UNCHANGED <<rlTier, rlBucket, rlNow, rlTicks, rlLocal, rlStarted, rlAdmitted,
                 rlDenied, rlFaults>>
  /\ UNCHANGED rlOverlap
  /\ UNCHANGED <<whVars, jobVars, sdkVars, vfVars, sevVars, fanVars, sdVars>>

\* admitted: (api: getRemaining, getRateLimitInfo, res.set) then next()
RLNext(r) ==
  /\ rlPc[r] = "next"
  /\ rlAdmitted' = Append(rlAdmitted, rlNow)
  /\ rlPc' = [rlPc EXCEPT ![r] = "idle"]
  /\ UNCHANGED <<rlTier, rlBucket, rlLog, rlExpireAt, rlNow, rlTicks, rlLocal,
                 rlStarted, rlDenied, rlFaults>>
  /\ UNCHANGED rlOverlap
  /\ UNCHANGED <<whVars, jobVars, sdkVars, vfVars, sevVars, fanVars, sdVars>>

\* catch (error) { console.error(...) }: the request is left unanswered (faulty variant)
CatchBlockSwallows(admitted, now) == admitted
\* catch (error) { console.error(...); next() }
CatchBlock(admitted, now) == Append(admitted, now)

\* an awaited limiter operation rejects (redis is down, or the command fails) and the
\* catch block of the middleware runs
RLFault(r) ==
  /\ rlPc[r] \in {"check", "remaining", "respond", "zadd", "zrem", "expire", "next"}
  /\ rlFaults < MaxRedisFaults
  /\ rlFaults' = rlFaults + 1
  /\ rlAdmitted' = CatchBlock(rlAdmitted, rlNow)
  /\ rlPc' = [rlPc EXCEPT ![r] = "idle"]
  /\ UNCHANGED <<rlTier, rlBucket, rlLog, rlExpireAt, rlNow, rlTicks, rlLocal,
                 rlStarted, rlDenied>>
  /\ UNCHANGED rlOverlap
  /\ UNCHANGED <<whVars, jobVars, sdkVars, vfVars, sevVars, fanVars, sdVars>>

\* time passes: one millisecond, or a whole window
RLTick ==
  /\ rlTicks < MaxTicks
  /\ rlTicks' = rlTicks + 1
  /\ \E d \in {1, WindowMs} : rlNow' = rlNow + d
  /\ UNCHANGED <<rlTier, rlBucket, rlLog, rlExpireAt, rlPc, rlLocal, rlStarted,
                 rlAdmitted, rlDenied, rlFaults>>
  /\ UNCHANGED rlOverlap
  /\ UNCHANGED <<whVars, jobVars, sdkVars, vfVars, sevVars, fanVars, sdVars>>

NextRL ==
  \/ \E r \in Reqs : RLBegin(r)
  \/ \E r \in Reqs : RLCheck(r)
  \/ \E r \in Reqs : RLDenyRemaining(r)
  \/ \E r \in Reqs : RLDenyRespond(r)
  \/ \E r \in Reqs : RLZadd(r)
  \/ \E r \in Reqs : RLZrem(r)
  \/ \E r \in Reqs : RLExpire(r)
  \/ \E r \in Reqs : RLNext(r)
  \/ \E r \in Reqs : RLFault(r)
  \/ RLTick

(***************************************************************************)
(* Webhook dispatcher: state                                               *)
(***************************************************************************)

EventTypes == {"processing.completed", "processing.failed"}
WhIds == 1..MaxWebhooks
EvtIds == 1..MaxEvents
Outcomes == {"2xx", "non2xx", "error"}   \* response in [200,300), other status, axios throws

\* what the await of axios.post can give: a completed response with its status
\* (validateStatus accepts every status), or a thrown timeout or transport error
StatusCodes == {200, 299, 300, 404, 500}
NoResponse == [kind |-> "none", status |-> 0]
Responses == [kind : {"response"}, status : StatusCodes]
               \cup {[kind |-> "timeout", status |-> 0], [kind |-> "error", status |-> 0]}

\* a success test that accepts every status below 400 (faulty variant)
DeliveredBelow400(status) == status >= 200 /\ status < 400
\* if (response.status >= 200 && response.status < 300)
Delivered(status) == status >= 200 /\ status < 300

\* the branch of deliverWebhook a result of axios.post takes
Outcome(response) ==
  IF response.kind = "response"
    THEN IF Delivered(response.status) THEN "2xx" ELSE "non2xx"
    ELSE "error"

retryDelays == <<1000, 5000, 15000, 60000, 300000>>
maxRetries == 5

NoSecret == <<>>
NoWebhook == [events |-> {}, isActive |-> FALSE, secret |-> NoSecret,
              total |-> 0, successful |-> 0, failed |-> 0]
\* settled: triggerEvent has returned `result`; delivered: how many of its first
\* attempts had got a 2xx response by then
NoResult == [triggered |-> 0]
NoTrigger == [type |-> "none", registry |-> {}, settled |-> FALSE, result |-> NoResult,
              delivered |-> 0]
\* st: none | flight (axios.post pending) | timer (setTimeout pending) | ok | dropped
\* attempt: the `attempt` argument; rem: time left on the timer
\* sent: X-Webhook-Signature and body of the latest request
\* hdrs, nOk, nFail, waited, gap: history of the chain, for the properties
NoRequest == [sig |-> <<>>, body |-> <<>>]
\* firstAt: how many requests the dispatcher had sent before the chain's first one
NoChain == [st |-> "none", attempt |-> 0, rem |-> 0, sent |-> NoRequest,
            hdrs |-> <<>>, nOk |-> 0, nFail |-> 0, waited |-> 0, gap |-> 0, firstAt |-> 0]

\* generateSecret: crypto.randomBytes(32).toString('hex'), the n-th value drawn
generateSecret(n) == <<"secret", n>>

\* triggerEvent: payload = {event, timestamp, data, id}; id = generateEventId()
Payload(eventType, e) ==
  [event |-> eventType, timestamp |-> "now", data |-> "data", id |-> <<"evt", e>>]

\* JSON.stringify(payload): the values of the own properties in insertion order
JSONstringify(payload) == <<payload.event, payload.timestamp, payload.data, payload.id>>

\* crypto.createHmac('sha256', key).update(msg).digest('hex'), taken as collision-free
HmacSha256Hex(key, msg) == <<"hmac-sha256", key, msg>>

\* createSignature over the payload without its id (faulty variant)
createSignaturePartial(payload, secret) ==
  HmacSha256Hex(secret, <<payload.event, payload.timestamp, payload.data>>)
\* createSignature: HMAC of JSON.stringify(payload) under the secret, hex
createSignature(payload, secret) == HmacSha256Hex(secret, JSONstringify(payload))

\* axios.post(url, payload): the object is sent as JSON.stringify(payload)
RequestBody(payload) == JSONstringify(payload)

\* the receiver's verifyWebhookSignature(body, signature, secret) for a signature of
\* digest length: recompute the HMAC of the body and compare
verifyWebhookSignature(body, signature, secret) == signature = HmacSha256Hex(secret, body)

\* what Map.get returns for a key that is not in the map
Undefined == [undefined |-> TRUE]

\* getWebhook: this.webhooks.get(webhookId), the stored object itself
getWebhook(id) == IF id \in whMap THEN whObj[id] ELSE Undefined

\* getWebhookStats: a new object of id, url, events, isActive, dates and deliveryStats
getWebhookStats(id) ==
  [events |-> whObj[id].events, isActive |-> whObj[id].isActive,
   total |-> whObj[id].total, successful |-> whObj[id].successful,
   failed |-> whObj[id].failed]

\* getAllWebhooks: Array.from(this.webhooks.values()).filter(w => w.isActive)
getAllWebhooks == {w \in whMap : whObj[w].isActive}

\* triggerEvent: getAllWebhooks().filter(w => w.events.includes(eventType)), unfiltered (faulty variant)
MatchingAll(eventType) == getAllWebhooks
\* triggerEvent: getAllWebhooks().filter(w => w.events.includes(eventType))
Matching(eventType) == {w \in getAllWebhooks : eventType \in whObj[w].events}

\* 'X-Webhook-Attempt': attempt, zero-based (faulty variant)
AttemptHeaderZeroBased(attempt) == attempt
\* 'X-Webhook-Attempt': attempt + 1
AttemptHeader(attempt) == attempt + 1

\* if (attempt <= this.maxRetries) (faulty variant)
ShouldRetryInclusive(attempt) == attempt <= maxRetries
\* if (attempt < this.maxRetries)
ShouldRetry(attempt) == attempt < maxRetries

\* retryDelays[Math.min(attempt, length - 1)] (faulty variant)
RetryDelayShifted(attempt) ==
  retryDelays[(IF attempt < Len(retryDelays) - 1 THEN attempt ELSE Len(retryDelays) - 1) + 1]
\* scheduleRetry: retryDelays[Math.min(attempt - 1, retryDelays.length - 1)]
RetryDelay(attempt) ==
  retryDelays[(IF attempt - 1 < Len(retryDelays) - 1 THEN attempt - 1 ELSE Len(retryDelays) - 1) + 1]

WHInit ==
  /\ whMap = {}
  /\ whObj = [w \in WhIds |-> NoWebhook]
  /\ whCreated = 0
  /\ whTrig = [e \in EvtIds |-> NoTrigger]
  /\ whChain = [e \in EvtIds |-> [w \in WhIds |-> NoChain]]
  /\ whHandled = NoResponse

\* registerWebhook with a valid url, a non-empty events array and no secret of the
\* caller's own; the webhook object, secret included, is what the call returns
WHRegister(events) ==
  /\ whCreated < MaxWebhooks
  /\ events # {}
  /\ LET id == whCreated + 1 IN
       /\ whObj' = [whObj EXCEPT ![id] = [events |-> events, isActive |-> TRUE,
                                          secret |-> generateSecret(id),
                                          total |-> 0, successful |-> 0, failed |-> 0]]
       /\ whMap' = whMap \cup {id}
  /\ whCreated' = whCreated + 1
  /\ UNCHANGED <<whTrig, whChain>>
  /\ whHandled' = NoResponse
  /\ UNCHANGED <<rlVars, jobVars, sdkVars, vfVars, sevVars, fanVars, sdVars>>

\* unregisterWebhook: webhook.isActive = false; this.webhooks.delete(webhookId)
WHUnregister(id) ==
  /\ id \in whMap
  /\ whObj' = [whObj EXCEPT ![id].isActive = FALSE]
  /\ whMap' = whMap \ {id}
  /\ UNCHANGED <<whCreated, whTrig, whChain>>
  /\ whHandled' = NoResponse
  /\ UNCHANGED <<rlVars, jobVars, sdkVars, vfVars, sevVars, fanVars, sdVars>>

\* the requests the dispatcher has sent so far
PostsSoFar ==
  Cardinality({<<e, w, i>> \in EvtIds \X WhIds \X (1..(maxRetries + 1)) :
                 i <= Len(whChain[e][w].hdrs)})

\* deliverWebhook up to its await: the POST of attempt `attempt` leaves
StartAttempt(c, attempt, webhook, payload) ==
  [c EXCEPT !.st = "flight", !.attempt = attempt, !.rem = 0,
            !.firstAt = IF c.hdrs = <<>> THEN PostsSoFar ELSE c.firstAt,
            !.sent = [sig |-> createSignature(payload, webhook.secret),
                      body |-> RequestBody(payload)],
            !.hdrs = Append(c.hdrs, AttemptHeader(attempt)),
            !.gap = c.waited, !.waited = 0]

\* the call deliverWebhook(webhook, payload) whose request leaves in a later
\* callback (faulty variant)
FirstDeliveryDeferred(webhook, payload) == [NoChain EXCEPT !.st = "timer"]
\* the call deliverWebhook(webhook, payload) of triggerEvent: it runs synchronously up
\* to axios.post, so the request of attempt 0 is issued inside the call
FirstDelivery(webhook, payload) == StartAttempt(NoChain, 0, webhook, payload)

\* the promise deliverWebhook returns: every outcome is caught and returned as a value
DeliverPromise(outcome) == "fulfilled"

\* triggerEvent's return value once Promise.allSettled has settled: `successful` and
\* `failed` count the fulfilled and the rejected promises of the matched webhooks
TriggerResult(promises) ==
  [triggered |-> Len(promises),
   successful |-> Cardinality({i \in 1..Len(promises) : promises[i] = "fulfilled"}),
   failed |-> Cardinality({i \in 1..Len(promises) : promises[i] = "rejected"})]

\* true while no delivery has failed
NoFailureYet == \A e \in EvtIds, w \in WhIds : whChain[e][w].nFail = 0

\* triggerEvent up to its await: webhooks.map(w => this.deliverWebhook(w, payload));
\* with no matching webhook it returns { triggered: 0 } at once
WHTrigger(eventType) ==
  /\ \E e \in EvtIds :
       /\ whTrig[e] = NoTrigger
       /\ \A e2 \in EvtIds : e2 < e => whTrig[e2] # NoTrigger
       /\ e <= MaxFailingEvents \/ NoFailureYet
       /\ whTrig' = [whTrig EXCEPT ![e] = [type |-> eventType, registry |-> whMap,
                                           settled |-> Matching(eventType) = {},
                                           result |-> NoResult, delivered |-> 0]]
       /\ whChain' = [whChain EXCEPT ![e] =
                        [w \in WhIds |-> IF w \in Matching(eventType)
                                           THEN FirstDelivery(whObj[w], Payload(eventType, e))
                                           ELSE NoChain]]
  /\ UNCHANGED <<whMap, whObj, whCreated>>
  /\ whHandled' = NoResponse
  /\ UNCHANGED <<rlVars, jobVars, sdkVars, vfVars, sevVars, fanVars, sdVars>>

\* the chains of event e whose first request is still awaiting its response
FirstPending(chains) == {w \in WhIds : chains[w].st = "flight" /\ chains[w].attempt = 0}

\* the outcomes of the first requests of event e, in the order of the matched webhooks
RECURSIVE FirstOutcomes(_, _)
FirstOutcomes(chains, n) ==
  IF n = 0 THEN <<>>
  ELSE LET rest == FirstOutcomes(chains, n - 1)
       IN IF chains[n].st = "none" THEN rest
          ELSE Append(rest, IF chains[n].st = "ok" /\ Len(chains[n].hdrs) = 1
                              THEN "2xx" ELSE "non2xx")

\* the sequence s with f applied to each element: results of Promise.allSettled
SettledPromises(outcomes) == [i \in 1..Len(outcomes) |-> DeliverPromise(outcomes[i])]

\* deliverWebhook after its await: the response, or the error axios throws; when it was
\* the last first attempt of its event to return, triggerEvent returns too
WHRespond(e, w, response) ==
  /\ whChain[e][w].st = "flight"
  /\ Outcome(response) # "2xx"
       => \A e2 \in EvtIds : e2 > MaxFailingEvents => whTrig[e2] = NoTrigger
  /\ whHandled' = response
  /\ LET c == whChain[e][w]
         o == whObj[w]
         outcome == Outcome(response) IN
       IF outcome = "2xx"
         THEN /\ whObj' = [whObj EXCEPT ![w].total = o.total + 1,
                                        ![w].successful = o.successful + 1]
              /\ whChain' = [whChain EXCEPT ![e][w].st = "ok", ![e][w].nOk = c.nOk + 1]
         ELSE /\ whObj' = [whObj EXCEPT ![w].total = o.total + 1,
                                        ![w].failed = o.failed + 1]
              /\ whChain' = [whChain EXCEPT ![e][w] =
                   IF ShouldRetry(c.attempt)
                     THEN [c EXCEPT !.st = "timer", !.attempt = c.attempt + 1,
                                    !.rem = RetryDelay(c.attempt + 1),
                                    !.waited = 0, !.nFail = c.nFail + 1]
                     ELSE [c EXCEPT !.st = "dropped", !.nFail = c.nFail + 1]]
  /\ whTrig' = [whTrig EXCEPT ![e] =
       IF ~whTrig[e].settled /\ FirstPending(whChain'[e]) = {}
         THEN LET outcomes == FirstOutcomes(whChain'[e], MaxWebhooks) IN
              [@ EXCEPT !.settled = TRUE,
                        !.result = TriggerResult(SettledPromises(outcomes)),
                        !.delivered = Cardinality({i \in 1..Len(outcomes) :
                                                     outcomes[i] = "2xx"})]
         ELSE @]
  /\ UNCHANGED <<whMap, whCreated>>
  /\ UNCHANGED <<rlVars, jobVars, sdkVars, vfVars, sevVars, fanVars, sdVars>>

\* true when the setTimeout of the chain may run its callback
TimerDue(c) == c.st = "timer" /\ c.rem = 0

\* the setTimeout callback of scheduleRetry: deliverWebhook(webhook, payload, attempt)
WHTimerFire(e, w) ==
  /\ TimerDue(whChain[e][w])
  /\ whChain' = [whChain EXCEPT ![e][w] =
                    StartAttempt(whChain[e][w], whChain[e][w].attempt, whObj[w],
                                 Payload(whTrig[e].type, e))]
  /\ UNCHANGED <<whMap, whObj, whCreated, whTrig>>
  /\ whHandled' = NoResponse
  /\ UNCHANGED <<rlVars, jobVars, sdkVars, vfVars, sevVars, fanVars, sdVars>>

\* time passes until the next pending timer falls due; a timer that is already due
\* may still be waiting for its callback to run
WHTick ==
  LET pending == {whChain[e][w].rem : e \in EvtIds, w \in WhIds} \ {0}
  IN /\ pending # {}
     /\ LET d == MinOf(pending) IN
          whChain' = [e \in EvtIds |-> [w \in WhIds |->
                        LET c == whChain[e][w] IN
                        IF c.st = "timer"
                          THEN [c EXCEPT !.rem = IF c.rem > d THEN c.rem - d ELSE 0,
                                         !.waited = c.waited + d]
                          ELSE c]]
     /\ UNCHANGED <<whMap, whObj, whCreated, whTrig>>
     /\ whHandled' = NoResponse
     /\ UNCHANGED <<rlVars, jobVars, sdkVars, vfVars, sevVars, fanVars, sdVars>>

NextWH ==
  \/ \E events \in SUBSET EventTypes : WHRegister(events)
  \/ \E id \in WhIds : WHUnregister(id)
  \/ \E t \in EventTypes : WHTrigger(t)
  \/ \E e \in EvtIds, w \in WhIds, r \in Responses : WHRespond(e, w, r)
  \/ \E e \in EvtIds, w \in WhIds : WHTimerFire(e, w)
  \/ WHTick


(***************************************************************************)
(* File-processing worker: processFileJob under Bull                       *)
(***************************************************************************)
MAX_RETRIES == 3

\* defaultJobOptions.attempts: MAX_RETRIES + 1 (faulty variant)
JobAttemptsPlusOne == MAX_RETRIES + 1
\* defaultJobOptions.attempts: MAX_RETRIES, Bull's total number of attempts of a job
JobAttempts == MAX_RETRIES

FileTypes == {"pdf", "PDF", "doc", "docx", "xls", "xlsx", "csv",
              "jpg", "jpeg", "png", "tiff", "bmp", "txt"}
JobEvents == {"file-processing-started", "file-processing-completed",
              "file-processing-failed", "job-completed", "job-failed"}
Null == -1
NoError == "null"
NoData == [address |-> FALSE, findings |-> 0]
NoTrx == [open |-> FALSE, rows |-> {}, file |-> FALSE]

\* fileType.toLowerCase()
toLowerCase(t) == IF t = "PDF" THEN "pdf" ELSE t

\* processFile with a default branch that falls back to OCR (faulty variant)
ParserForLenient(fileType) ==
  LET t == toLowerCase(fileType) IN
  CASE t = "pdf" -> "pdfParser"
    [] t \in {"docx", "doc"} -> "wordParser"
    [] t \in {"xlsx", "xls"} -> "excelParser"
    [] OTHER -> "ocrParser"

\* processFile: the parser the switch selects, "none" for the default branch
ParserFor(fileType) ==
  LET t == toLowerCase(fileType) IN
  CASE t = "pdf" -> "pdfParser"
    [] t \in {"docx", "doc"} -> "wordParser"
    [] t \in {"xlsx", "xls"} -> "excelParser"
    [] t \in {"jpg", "jpeg", "png", "tiff", "bmp"} -> "ocrParser"
    [] OTHER -> "none"

\* emitStatusUpdate: if (globalIO) globalIO.emit(event, ...)
emitStatusUpdate(emitted, event) ==
  IF globalIO THEN [emitted EXCEPT ![event] = @ + 1] ELSE emitted

\* updateFileStatus that writes the progress column on every call (faulty variant)
updateFileStatusAnyProgress(rec, status, progress, error, ok) ==
  IF ok
    THEN [rec EXCEPT !.status = status,
                     !.progress = progress,
                     !.error = IF error # NoError THEN error ELSE @]
    ELSE rec
\* updateFileStatus: the update of the files row; ok = the db call did not reject
updateFileStatus(rec, status, progress, error, ok) ==
  IF ok
    THEN [rec EXCEPT !.status = status,
                     !.progress = IF progress # Null THEN progress ELSE @,
                     !.error = IF error # NoError THEN error ELSE @]
    ELSE rec

\* updateFileStatus: the progress of the 'file-status-updated' event, which is emitted
\* after the update succeeded; a null progress reports no value
Reported(last, progress, ok) == IF ok /\ progress # Null THEN progress ELSE last

\* the rows saveProcessedData inserts for processedData, tagged with the run that wrote them
PropertyRow(run) == [table |-> "properties", run |-> run, n |-> 1]
InspectionRow(run) == [table |-> "inspections", run |-> run, n |-> 1]
FindingRows(run, n) == [table |-> "findings", run |-> run, n |-> n]

\* trx.rollback() that leaves the staged rows in place (faulty variant)
TrxRollbackKeeps(committed, staged) == committed \cup staged
\* trx.rollback(): the staged writes are discarded
TrxRollback(committed, staged) == committed
\* trx.commit(): the staged writes become visible together
TrxCommit(committed, staged) == committed \cup staged

JobInit ==
  /\ jobState = "none"
  /\ jobFileType = "pdf"
  /\ jobAttemptsMade = 0
  /\ jobPc = "idle"
  /\ jobParsed = NoData
  /\ fileRec = [status |-> "pending", progress |-> 0, error |-> NoError, processedAt |-> 0]
  /\ trx = NoTrx
  /\ db = {}
  /\ globalIO = FALSE
  /\ jobEmitted = [ev \in JobEvents |-> 0]
  /\ jobRuns = 0
  /\ jobDiscarded = 0
  /\ jobInvoked = {}
  /\ jobError = NoError
  /\ jobTimer = 0
  /\ jobWaited = 0
  /\ jobGaps = <<>>
  /\ jobLastReported = Null
  /\ jobStagesDone = {}

\* the main app installs its Socket.IO instance
SetGlobalIO ==
  /\ ~globalIO
  /\ jobState = "none"
  /\ globalIO' = TRUE
  /\ UNCHANGED <<jobState, jobFileType, jobAttemptsMade, jobPc, jobParsed, fileRec, trx, db,
                 jobEmitted, jobRuns, jobDiscarded>>
  /\ UNCHANGED <<jobInvoked, jobError>>
  /\ UNCHANGED <<jobTimer, jobWaited, jobGaps, jobLastReported>>
  /\ UNCHANGED jobStagesDone
  /\ UNCHANGED <<rlVars, whVars, sdkVars, vfVars, sevVars, fanVars, sdVars>>

\* a 'process-file' job is added to the file-processing queue
JobAdd(fileType) ==
  /\ jobState = "none"
  /\ jobState' = "waiting"
  /\ jobFileType' = fileType
  /\ UNCHANGED <<jobAttemptsMade, jobPc, jobParsed, fileRec, trx, db, globalIO,
                 jobEmitted, jobRuns, jobDiscarded>>
  /\ UNCHANGED <<jobInvoked, jobError>>
  /\ UNCHANGED <<jobTimer, jobWaited, jobGaps, jobLastReported>>
  /\ UNCHANGED jobStagesDone
  /\ UNCHANGED <<rlVars, whVars, sdkVars, vfVars, sevVars, fanVars, sdVars>>

\* Bull takes the waiting job and calls processFileJob, which issues
\* updateFileStatus(fileId, 'processing', 10)
JobStart ==
  /\ jobState = "waiting"
  /\ jobState' = "active"
  /\ jobRuns' = jobRuns + 1
  /\ jobPc' = "status10"
  /\ UNCHANGED <<jobFileType, jobAttemptsMade, jobParsed, fileRec, trx, db, globalIO,
                 jobEmitted, jobDiscarded>>
  /\ UNCHANGED <<jobInvoked, jobError>>
  /\ jobLastReported' = Null
  /\ UNCHANGED <<jobTimer, jobWaited, jobGaps>>
  /\ jobStagesDone' = {}
  /\ UNCHANGED <<rlVars, whVars, sdkVars, vfVars, sevVars, fanVars, sdVars>>

\* updateFileStatus(.., 'processing', 10) settles; emit file-processing-started
JobStatus10(ok) ==
  /\ jobPc = "status10"
  /\ fileRec' = updateFileStatus(fileRec, "processing", 10, NoError, ok)
  /\ jobEmitted' = emitStatusUpdate(jobEmitted, "file-processing-started")
  /\ jobPc' = "status30"
  /\ UNCHANGED <<jobState, jobFileType, jobAttemptsMade, jobParsed, trx, db, globalIO,
                 jobRuns, jobDiscarded>>
  /\ UNCHANGED <<jobInvoked, jobError>>
  /\ jobLastReported' = Reported(jobLastReported, 10, ok)
  /\ UNCHANGED <<jobTimer, jobWaited, jobGaps>>
  /\ UNCHANGED jobStagesDone
  /\ UNCHANGED <<rlVars, whVars, sdkVars, vfVars, sevVars, fanVars, sdVars>>

\* updateFileStatus(.., 'processing', 30) settles; processFile is called
JobStatus30(ok) ==
  /\ jobPc = "status30"
  /\ fileRec' = updateFileStatus(fileRec, "processing", 30, NoError, ok)
  /\ jobPc' = "parse"
  /\ UNCHANGED <<jobState, jobFileType, jobAttemptsMade, jobParsed, trx, db, globalIO,
                 jobEmitted, jobRuns, jobDiscarded>>
  /\ UNCHANGED <<jobInvoked, jobError>>
  /\ jobLastReported' = Reported(jobLastReported, 30, ok)
  /\ UNCHANGED <<jobTimer, jobWaited, jobGaps>>
  /\ UNCHANGED jobStagesDone
  /\ UNCHANGED <<rlVars, whVars, sdkVars, vfVars, sevVars, fanVars, sdVars>>

\* processFile: the parser's parse(), then extractPropertyInfo, extractInspectorInfo and
\* extractFindings on its content
ProcessFileStages == {"parse", "extract"}

\* processFile calls the parser the switch selects and returns the extracted data
JobParseOk(address, findings) ==
  /\ jobPc = "parse"
  /\ ParserFor(jobFileType) # "none"
  /\ jobInvoked' = jobInvoked \cup {ParserFor(jobFileType)}
  /\ jobParsed' = [address |-> address, findings |-> findings]
  /\ jobPc' = "status70"
  /\ UNCHANGED <<jobState, jobFileType, jobAttemptsMade, fileRec, trx, db, globalIO,
                 jobEmitted, jobRuns, jobDiscarded>>
  /\ UNCHANGED jobError
  /\ UNCHANGED <<jobTimer, jobWaited, jobGaps, jobLastReported>>
  /\ jobStagesDone' = jobStagesDone \cup ProcessFileStages
  /\ UNCHANGED <<rlVars, whVars, sdkVars, vfVars, sevVars, fanVars, sdVars>>

\* processFile throws: the default branch of the switch throws 'Unsupported file type'
\* before any parser is called, or the parser that was called (or the extraction after
\* it) throws
JobParseFail ==
  /\ jobPc = "parse"
  /\ IF ParserFor(jobFileType) = "none"
       THEN /\ jobInvoked' = jobInvoked
            /\ jobError' = "unsupported"
       ELSE /\ jobInvoked' = jobInvoked \cup {ParserFor(jobFileType)}
            /\ jobError' = "parser"
  /\ jobPc' = "catch"
  /\ UNCHANGED <<jobState, jobFileType, jobAttemptsMade, jobParsed, fileRec, trx, db,
                 globalIO, jobEmitted, jobRuns, jobDiscarded>>
  /\ UNCHANGED <<jobTimer, jobWaited, jobGaps, jobLastReported>>
  /\ UNCHANGED jobStagesDone
  /\ UNCHANGED <<rlVars, whVars, sdkVars, vfVars, sevVars, fanVars, sdVars>>

\* updateFileStatus(.., 'processing', 70) settles; saveProcessedData awaits db.transaction()
JobStatus70(ok) ==
  /\ jobPc = "status70"
  /\ fileRec' = updateFileStatus(fileRec, "processing", 70, NoError, ok)
  /\ jobPc' = "begin"
  /\ UNCHANGED <<jobState, jobFileType, jobAttemptsMade, jobParsed, trx, db, globalIO,
                 jobEmitted, jobRuns, jobDiscarded>>
  /\ UNCHANGED <<jobInvoked, jobError>>
  /\ jobLastReported' = Reported(jobLastReported, 70, ok)
  /\ UNCHANGED <<jobTimer, jobWaited, jobGaps>>
  /\ UNCHANGED jobStagesDone
  /\ UNCHANGED <<rlVars, whVars, sdkVars, vfVars, sevVars, fanVars, sdVars>>

\* the first write saveProcessedData makes for the parsed data
FirstWrite == IF jobParsed.address THEN "property" ELSE "inspection"

\* db.transaction() settles; a rejection is thrown to processFileJob
JobBegin(ok) ==
  /\ jobPc = "begin"
  /\ IF ok THEN /\ trx' = [open |-> TRUE, rows |-> {}, file |-> FALSE]
                /\ jobPc' = FirstWrite
                /\ jobError' = jobError
           ELSE /\ trx' = trx
                /\ jobPc' = "catch"
                /\ jobError' = "db"
  /\ UNCHANGED <<jobState, jobFileType, jobAttemptsMade, jobParsed, fileRec, db, globalIO,
                 jobEmitted, jobRuns, jobDiscarded>>
  /\ UNCHANGED jobInvoked
  /\ UNCHANGED <<jobTimer, jobWaited, jobGaps, jobLastReported>>
  /\ UNCHANGED jobStagesDone
  /\ UNCHANGED <<rlVars, whVars, sdkVars, vfVars, sevVars, fanVars, sdVars>>

\* a write inside the transaction rejects: catch { await trx.rollback(); throw error }
Rollback ==
  /\ db' = TrxRollback(db, trx.rows)
  /\ jobDiscarded' = jobDiscarded + Cardinality(trx.rows) + (IF trx.file THEN 1 ELSE 0)
  /\ trx' = NoTrx
  /\ jobPc' = "catch"
  /\ jobError' = "db"
  /\ fileRec' = fileRec

\* a write inside the transaction is staged
Stage(row, nextPc) ==
  /\ trx' = [trx EXCEPT !.rows = @ \cup {row}]
  /\ jobPc' = nextPc
  /\ UNCHANGED <<db, fileRec, jobDiscarded, jobError>>

\* trx('properties').insert(...)
JobInsertProperty(ok) ==
  /\ jobPc = "property"
  /\ IF ok THEN Stage(PropertyRow(jobRuns), "inspection") ELSE Rollback
  /\ UNCHANGED <<jobState, jobFileType, jobAttemptsMade, jobParsed, globalIO,
                 jobEmitted, jobRuns>>
  /\ UNCHANGED jobInvoked
  /\ UNCHANGED <<jobTimer, jobWaited, jobGaps, jobLastReported>>
  /\ UNCHANGED jobStagesDone
  /\ UNCHANGED <<rlVars, whVars, sdkVars, vfVars, sevVars, fanVars, sdVars>>

\* trx('inspections').insert(...)
JobInsertInspection(ok) ==
  /\ jobPc = "inspection"
  /\ IF ok THEN Stage(InspectionRow(jobRuns),
                      IF jobParsed.findings > 0 THEN "findings" ELSE "file")
           ELSE Rollback
  /\ UNCHANGED <<jobState, jobFileType, jobAttemptsMade, jobParsed, globalIO,
                 jobEmitted, jobRuns>>
  /\ UNCHANGED jobInvoked
  /\ UNCHANGED <<jobTimer, jobWaited, jobGaps, jobLastReported>>
  /\ UNCHANGED jobStagesDone
  /\ UNCHANGED <<rlVars, whVars, sdkVars, vfVars, sevVars, fanVars, sdVars>>

\* trx('findings').insert(findingsToInsert)
JobInsertFindings(ok) ==
  /\ jobPc = "findings"
  /\ IF ok THEN Stage(FindingRows(jobRuns, jobParsed.findings), "file") ELSE Rollback
  /\ UNCHANGED <<jobState, jobFileType, jobAttemptsMade, jobParsed, globalIO,
                 jobEmitted, jobRuns>>
  /\ UNCHANGED jobInvoked
  /\ UNCHANGED <<jobTimer, jobWaited, jobGaps, jobLastReported>>
  /\ UNCHANGED jobStagesDone
  /\ UNCHANGED <<rlVars, whVars, sdkVars, vfVars, sevVars, fanVars, sdVars>>

\* trx('files').where('id', fileId).update({status: 'processed', processedAt})
JobUpdateFile(ok) ==
  /\ jobPc = "file"
  /\ IF ok THEN /\ trx' = [trx EXCEPT !.file = TRUE]
                /\ jobPc' = "commit"
                /\ UNCHANGED <<db, fileRec, jobDiscarded, jobError>>
           ELSE Rollback
  /\ UNCHANGED <<jobState, jobFileType, jobAttemptsMade, jobParsed, globalIO,
                 jobEmitted, jobRuns>>
  /\ UNCHANGED jobInvoked
  /\ UNCHANGED <<jobTimer, jobWaited, jobGaps, jobLastReported>>
  /\ UNCHANGED jobStagesDone
  /\ UNCHANGED <<rlVars, whVars, sdkVars, vfVars, sevVars, fanVars, sdVars>>

\* trx.commit(); on success processFileJob issues updateFileStatus(.., 'processed', 100)
JobCommit(ok) ==
  /\ jobPc = "commit"
  /\ IF ok THEN /\ db' = TrxCommit(db, trx.rows)
                /\ fileRec' = [fileRec EXCEPT !.status = "processed", !.processedAt = jobRuns]
                /\ trx' = NoTrx
                /\ jobPc' = "status100"
                /\ UNCHANGED <<jobDiscarded, jobError>>
           ELSE Rollback
  /\ UNCHANGED <<jobState, jobFileType, jobAttemptsMade, jobParsed, globalIO,
                 jobEmitted, jobRuns>>
  /\ UNCHANGED jobInvoked
  /\ UNCHANGED <<jobTimer, jobWaited, jobGaps, jobLastReported>>
  /\ jobStagesDone' = IF ok THEN jobStagesDone \cup {"persist"} ELSE jobStagesDone
  /\ UNCHANGED <<rlVars, whVars, sdkVars, vfVars, sevVars, fanVars, sdVars>>

\* updateFileStatus(.., 'processed', 100) settles; emit file-processing-completed;
\* the handler returns, Bull completes the job and the 'completed' listener runs
JobStatus100(ok) ==
  /\ jobPc = "status100"
  /\ fileRec' = updateFileStatus(fileRec, "processed", 100, NoError, ok)
  /\ jobEmitted' = emitStatusUpdate(emitStatusUpdate(jobEmitted, "file-processing-completed"),
                                    "job-completed")
  /\ jobPc' = "idle"
  /\ jobState' = "completed"
  /\ UNCHANGED <<jobFileType, jobAttemptsMade, jobParsed, trx, db, globalIO,
                 jobRuns, jobDiscarded>>
  /\ UNCHANGED <<jobInvoked, jobError>>
  /\ jobLastReported' = Reported(jobLastReported, 100, ok)
  /\ UNCHANGED <<jobTimer, jobWaited, jobGaps>>
  /\ UNCHANGED jobStagesDone
  /\ UNCHANGED <<rlVars, whVars, sdkVars, vfVars, sevVars, fanVars, sdVars>>

\* defaultJobOptions.backoff.delay
BackoffDelay == 2000
\* backoff type 'fixed': the same delay before every retry (variant)
BullBackoffFixed(attemptsMade) == BackoffDelay
\* backoff type 'exponential': Bull delays the retry by round((2^attemptsMade - 1) * delay)
BullBackoff(attemptsMade) == (2 ^ attemptsMade - 1) * BackoffDelay

\* Bull after a throwing handler: retry while attemptsMade < attempts
BullAfterFailure(attemptsMade) == IF attemptsMade < JobAttempts THEN "delayed" ELSE "failed"

\* catch: updateFileStatus(.., 'failed', null, message) settles; emit
\* file-processing-failed; throw: Bull counts the attempt and the 'failed' listener runs
JobCatch(ok) ==
  /\ jobPc = "catch"
  /\ fileRec' = updateFileStatus(fileRec, "failed", Null, jobError, ok)
  /\ jobError' = NoError
  /\ jobEmitted' = emitStatusUpdate(emitStatusUpdate(jobEmitted, "file-processing-failed"),
                                    "job-failed")
  /\ jobAttemptsMade' = jobAttemptsMade + 1
  /\ jobState' = BullAfterFailure(jobAttemptsMade + 1)
  /\ jobPc' = "idle"
  /\ UNCHANGED <<jobFileType, jobParsed, trx, db, globalIO, jobRuns, jobDiscarded>>
  /\ UNCHANGED jobInvoked
  /\ jobLastReported' = Reported(jobLastReported, Null, ok)
  /\ jobTimer' = IF BullAfterFailure(jobAttemptsMade + 1) = "delayed"
                  THEN BullBackoff(jobAttemptsMade + 1) ELSE 0
  /\ jobWaited' = 0
  /\ UNCHANGED <<jobGaps>>
  /\ UNCHANGED jobStagesDone
  /\ UNCHANGED <<rlVars, whVars, sdkVars, vfVars, sevVars, fanVars, sdVars>>

\* time passes until the delay of the delayed job is over
JobTick ==
  /\ jobState = "delayed"
  /\ jobTimer > 0
  /\ jobWaited' = jobWaited + jobTimer
  /\ jobTimer' = 0
  /\ UNCHANGED <<jobState, jobFileType, jobAttemptsMade, jobPc, jobParsed, fileRec, trx, db,
                 globalIO, jobEmitted, jobRuns, jobDiscarded>>
  /\ UNCHANGED <<jobInvoked, jobError, jobGaps, jobLastReported>>
  /\ UNCHANGED jobStagesDone
  /\ UNCHANGED <<rlVars, whVars, sdkVars, vfVars, sevVars, fanVars, sdVars>>

\* the delay of the delayed job is over: Bull promotes it to waiting
JobBackoffElapsed ==
  /\ jobState = "delayed"
  /\ jobTimer = 0
  /\ jobState' = "waiting"
  /\ UNCHANGED <<jobFileType, jobAttemptsMade, jobPc, jobParsed, fileRec, trx, db, globalIO,
                 jobEmitted, jobRuns, jobDiscarded>>
  /\ UNCHANGED <<jobInvoked, jobError>>
  /\ jobGaps' = Append(jobGaps, jobWaited)
  /\ jobWaited' = 0
  /\ UNCHANGED <<jobTimer, jobLastReported>>
  /\ UNCHANGED jobStagesDone
  /\ UNCHANGED <<rlVars, whVars, sdkVars, vfVars, sevVars, fanVars, sdVars>>

NextJob ==
  \/ SetGlobalIO
  \/ \E t \in FileTypes : JobAdd(t)
  \/ JobStart
  \/ \E ok \in BOOLEAN : JobStatus10(ok)
  \/ \E ok \in BOOLEAN : JobStatus30(ok)
  \/ \E a \in BOOLEAN, f \in 0..MaxFindings : JobParseOk(a, f)
  \/ JobParseFail
  \/ \E ok \in BOOLEAN : JobStatus70(ok)
  \/ \E ok \in BOOLEAN : JobBegin(ok)
  \/ \E ok \in BOOLEAN : JobInsertProperty(ok)
  \/ \E ok \in BOOLEAN : JobInsertInspection(ok)
  \/ \E ok \in BOOLEAN : JobInsertFindings(ok)
  \/ \E ok \in BOOLEAN : JobUpdateFile(ok)
  \/ \E ok \in BOOLEAN : JobCommit(ok)
  \/ \E ok \in BOOLEAN : JobStatus100(ok)
  \/ \E ok \in BOOLEAN : JobCatch(ok)
  \/ JobTick
  \/ JobBackoffElapsed


(***************************************************************************)
(* SDK client: IVIngestionClient                                           *)
(***************************************************************************)
\* this.config.maxRetries = config.maxRetries || 3
configMaxRetries == 3
\* monitorProcessing: const maxAttempts = 300
maxAttempts == 300

\* FileStatus.status
FileStatuses == {"uploaded", "processing", "completed", "failed"}
\* the responses other than 2xx the server gives: rate limited, server error
ErrorCodes == {429, 500}
NoStatus == "none"
NoReq == [kind |-> "none", pc |-> "idle", sends |-> 0]
NoMon == [pc |-> "off", attempts |-> 0]

\* this.emit(event, payload): the event with the file status its payload carries
emit(emitted, event, status) == emitted \cup {[event |-> event, status |-> status]}

\* response error interceptor: whether the request is sent again
Resend(code, retryAfter) == code = 429 /\ retryAfter

\* this.httpClient.get / post: a new request is handed to axios
Request(kind) == [kind |-> kind, pc |-> "inflight", sends |-> 1]

SDKInit ==
  /\ sdkUpload = "none"
  /\ sdkReq = NoReq
  /\ sdkMon = NoMon
  /\ sdkEmitted = {}

\* uploadFile: this.httpClient.post('/files/upload', ...)
SDKUploadFile ==
  /\ sdkUpload = "none"
  /\ sdkUpload' = "pending"
  /\ sdkReq' = Request("upload")
  /\ UNCHANGED <<sdkMon, sdkEmitted>>
  /\ UNCHANGED <<rlVars, whVars, jobVars, vfVars, sevVars, fanVars, sdVars>>

\* poll after getFileStatus resolved with status: progress event, then complete,
\* timeout, or the next poll is scheduled
PollResolved(status) ==
  LET progress == emit(sdkEmitted, "processing:progress", status) IN
  IF status = "completed" \/ status = "failed"
    THEN /\ sdkEmitted' = emit(progress, "processing:complete", status)
         /\ sdkMon' = [sdkMon EXCEPT !.pc = "done"]
    ELSE IF sdkMon.attempts >= maxAttempts
      THEN /\ sdkEmitted' = emit(progress, "processing:timeout", NoStatus)
           /\ sdkMon' = [sdkMon EXCEPT !.pc = "done"]
      ELSE /\ sdkEmitted' = progress
           /\ sdkMon' = [pc |-> "timer", attempts |-> sdkMon.attempts + 1]

\* a 2xx response arrives: the request resolves; uploadFile starts monitorProcessing,
\* whose first poll calls getFileStatus; poll goes on with the status it got
SDKRespondOk(status) ==
  /\ sdkReq.pc = "inflight"
  /\ IF sdkReq.kind = "upload"
       THEN /\ sdkUpload' = "resolved"
            /\ sdkReq' = Request("poll")
            /\ sdkMon' = [pc |-> "await", attempts |-> 0]
            /\ sdkEmitted' = sdkEmitted
       ELSE /\ sdkUpload' = sdkUpload
            /\ sdkReq' = NoReq
            /\ PollResolved(status)
  /\ UNCHANGED <<rlVars, whVars, jobVars, vfVars, sevVars, fanVars, sdVars>>

\* an error response arrives: the error interceptor waits Retry-After seconds before it
\* sends the request again, or rejects; poll's catch emits processing:error
SDKRespondFail(code, retryAfter) ==
  /\ sdkReq.pc = "inflight"
  /\ IF Resend(code, retryAfter)
       THEN /\ sdkReq' = [sdkReq EXCEPT !.pc = "delay"]
            /\ UNCHANGED <<sdkUpload, sdkMon, sdkEmitted>>
       ELSE /\ sdkReq' = NoReq
            /\ IF sdkReq.kind = "upload"
                 THEN /\ sdkUpload' = "rejected"
                      /\ UNCHANGED <<sdkMon, sdkEmitted>>
                 ELSE /\ sdkEmitted' = emit(sdkEmitted, "processing:error", NoStatus)
                      /\ sdkMon' = [sdkMon EXCEPT !.pc = "done"]
                      /\ sdkUpload' = sdkUpload
  /\ UNCHANGED <<rlVars, whVars, jobVars, vfVars, sevVars, fanVars, sdVars>>

\* this.delay(retryAfter * 1000) is over: return this.httpClient.request(error.config)
SDKResend ==
  /\ sdkReq.pc = "delay"
  /\ sdkReq.sends < MaxSends
  /\ sdkReq' = [sdkReq EXCEPT !.pc = "inflight", !.sends = @ + 1]
  /\ UNCHANGED <<sdkUpload, sdkMon, sdkEmitted>>
  /\ UNCHANGED <<rlVars, whVars, jobVars, vfVars, sevVars, fanVars, sdVars>>

\* setTimeout(poll, pollInterval) fires: poll calls getFileStatus
SDKPoll ==
  /\ sdkMon.pc = "timer"
  /\ sdkMon' = [sdkMon EXCEPT !.pc = "await"]
  /\ sdkReq' = Request("poll")
  /\ UNCHANGED <<sdkUpload, sdkEmitted>>
  /\ UNCHANGED <<rlVars, whVars, jobVars, vfVars, sevVars, fanVars, sdVars>>

NextSDK ==
  \/ SDKUploadFile
  \/ \E status \in FileStatuses : SDKRespondOk(status)
  \/ \E code \in ErrorCodes, retryAfter \in BOOLEAN : SDKRespondFail(code, retryAfter)
  \/ SDKResend
  \/ SDKPoll


(***************************************************************************)
(* verifySignature: the comparison of a received signature                 *)
(***************************************************************************)
\* a character of a signature string: the hex digits 0..15, and NotHex for any other
NotHex == 16
\* length of the hex digest of SHA-256
DigestLen == 64
VfPayloads == {1, 2}
VfSecrets == {1, 2}

\* createSignature(payload, secret) as a string of hex digits: a stand-in for the
\* HMAC that gives different digests for the different inputs
HexDigest(payload, secret) == [i \in 1..DigestLen |-> (secret + 2 * payload + i) % 16]

\* Buffer.from(s, 'hex'): the bytes of the leading pairs of hex digits; decoding stops
\* at the first pair that is not hex, a single trailing character is dropped
RECURSIVE BufferFromHex(_)
BufferFromHex(s) ==
  IF Len(s) < 2 \/ s[1] = NotHex \/ s[2] = NotHex
    THEN <<>>
    ELSE <<16 * s[1] + s[2]>> \o BufferFromHex(SubSeq(s, 3, Len(s)))

\* crypto.timingSafeEqual(a, b): a RangeError when the byte lengths differ
timingSafeEqual(a, b) ==
  IF Len(a) # Len(b) THEN "throws" ELSE IF a = b THEN "true" ELSE "false"

\* verifySignature(payload, signature, secret)
verifySignature(payload, signature, secret) ==
  LET expectedSignature == HexDigest(payload, secret)
  IN timingSafeEqual(BufferFromHex(signature), BufferFromHex(expectedSignature))

\* the signatures a receiver may be handed: a digest, and a digest that was cut,
\* extended, or changed in one character
Candidates(d) ==
  {d,
   SubSeq(d, 1, DigestLen - 2),
   SubSeq(d, 1, DigestLen - 1),
   d \o <<0, 0>>,
   d \o <<NotHex>>,
   [d EXCEPT ![DigestLen] = NotHex],
   [d EXCEPT ![1] = (d[1] + 1) % 16],
   <<>>}
VfSignatures == UNION {Candidates(HexDigest(p, k)) : p \in VfPayloads, k \in VfSecrets}

\* no call under observation
VFIdle ==
  /\ vfPayload = 1 /\ vfSecret = 1 /\ vfSignature = <<>> /\ vfResult = "none"

VFInit ==
  /\ vfPayload \in VfPayloads
  /\ vfSecret \in VfSecrets
  /\ vfSignature \in VfSignatures
  /\ vfResult = "none"

\* the receiver calls verifySignature(payload, signature, secret)
VFVerify ==
  /\ vfResult = "none"
  /\ vfResult' = verifySignature(vfPayload, vfSignature, vfSecret)
  /\ UNCHANGED <<vfPayload, vfSecret, vfSignature>>
  /\ UNCHANGED <<rlVars, whVars, jobVars, sdkVars, sevVars, fanVars, sdVars>>

NextVF == VFVerify


(***************************************************************************)
(* extractFindings: the severity of a finding                              *)
(***************************************************************************)
\* severityKeywords, in the order of Object.entries
severityKeywords ==
  <<[severity |-> "high",
     keywords |-> {"critical", "urgent", "safety", "hazard", "danger", "emergency",
                   "immediate"}],
    [severity |-> "medium",
     keywords |-> {"moderate", "attention", "concern", "issue", "problem"}],
    [severity |-> "low",
     keywords |-> {"minor", "cosmetic", "maintenance", "suggestion", "recommendation"}]>>

\* severity: 'medium', // Default severity
DefaultSeverity == "medium"

Keywords == UNION {severityKeywords[i].keywords : i \in 1..Len(severityKeywords)}
Descriptions == {d \in SUBSET Keywords : Cardinality(d) <= MaxKeywords}

\* the loop over severityKeywords: the first group one of whose keywords the
\* description includes decides, else the default stays
RECURSIVE SeverityFrom(_, _)
SeverityFrom(description, i) ==
  IF i > Len(severityKeywords) THEN DefaultSeverity
  ELSE IF severityKeywords[i].keywords \cap description # {}
         THEN severityKeywords[i].severity
         ELSE SeverityFrom(description, i + 1)
Severity(description) == SeverityFrom(description, 1)

\* no finding under observation
SevIdle == sevDescription = {} /\ sevResult = "none"

SevInit == sevDescription \in Descriptions /\ sevResult = "none"

\* extractFindings builds the finding for a match
SevExtract ==
  /\ sevResult = "none"
  /\ sevResult' = Severity(sevDescription)
  /\ UNCHANGED sevDescription
  /\ UNCHANGED <<rlVars, whVars, jobVars, sdkVars, vfVars, fanVars, sdVars>>

NextSev == SevExtract


(***************************************************************************)
(* Webhook dispatcher: the deliveries of one event, counted                *)
(***************************************************************************)
\* the positions of a delivery chain that is under way: its request of attempt a is
\* pending, or the timer before its attempt a is pending
FanPositions == ({"flight"} \X (0..maxRetries)) \cup ({"timer"} \X (1..maxRetries))

\* the axios.post calls that have not returned
InFlight(deliveries) ==
  LET RECURSIVE Sum(_)
      Sum(a) == IF a < 0 THEN 0 ELSE deliveries[<<"flight", a>>] + Sum(a - 1)
  IN Sum(maxRetries)

FanInit ==
  /\ fanSubscribers = 0
  /\ fanTriggered = FALSE
  /\ fanDeliveries = [p \in FanPositions |-> 0]

\* registerWebhook for the event type
FanRegister ==
  /\ ~fanTriggered
  /\ fanSubscribers < MaxSubscribers
  /\ fanSubscribers' = fanSubscribers + 1
  /\ UNCHANGED <<fanTriggered, fanDeliveries>>
  /\ UNCHANGED <<rlVars, whVars, jobVars, sdkVars, vfVars, sevVars, sdVars>>

\* triggerEvent: webhooks.map(webhook => this.deliverWebhook(webhook, payload)) posts to
\* every matching webhook before the first await
FanTrigger ==
  /\ ~fanTriggered
  /\ fanTriggered' = TRUE
  /\ fanDeliveries' = [fanDeliveries EXCEPT ![<<"flight", 0>>] = fanSubscribers]
  /\ UNCHANGED fanSubscribers
  /\ UNCHANGED <<rlVars, whVars, jobVars, sdkVars, vfVars, sevVars, sdVars>>

\* deliverWebhook after its await: done on a 2xx, else scheduleRetry while
\* attempt < maxRetries
FanRespond(attempt, outcome) ==
  /\ fanDeliveries[<<"flight", attempt>>] > 0
  /\ fanDeliveries' =
       IF outcome # "2xx" /\ ShouldRetry(attempt)
         THEN [fanDeliveries EXCEPT ![<<"flight", attempt>>] = @ - 1,
                                    ![<<"timer", attempt + 1>>] = @ + 1]
         ELSE [fanDeliveries EXCEPT ![<<"flight", attempt>>] = @ - 1]
  /\ UNCHANGED <<fanSubscribers, fanTriggered>>
  /\ UNCHANGED <<rlVars, whVars, jobVars, sdkVars, vfVars, sevVars, sdVars>>

\* the setTimeout callback of scheduleRetry calls deliverWebhook at once
FanTimerFire(attempt) ==
  /\ fanDeliveries[<<"timer", attempt>>] > 0
  /\ fanDeliveries' = [fanDeliveries EXCEPT ![<<"timer", attempt>>] = @ - 1,
                                            ![<<"flight", attempt>>] = @ + 1]
  /\ UNCHANGED <<fanSubscribers, fanTriggered>>
  /\ UNCHANGED <<rlVars, whVars, jobVars, sdkVars, vfVars, sevVars, sdVars>>

NextFan ==
  \/ FanRegister
  \/ FanTrigger
  \/ \E a \in 0..maxRetries, o \in Outcomes : FanRespond(a, o)
  \/ \E a \in 1..maxRetries : FanTimerFire(a)


(***************************************************************************)
(* Graceful shutdown of a process that runs the job handlers               *)
(***************************************************************************)
\* the queues initializeQueues gives a processor
WorkerQueues == {"file-processing", "data-extraction"}

\* the knex pool and the ioredis client of processor.js, and those of the server
WorkerConnections == {"worker.db", "worker.redis"}
ServerConnections == {"server.db", "server.redis"}
Connections == WorkerConnections \cup ServerConnections

\* the process as startWorker leaves it; the server's module builds its own db, redis
\* and queues before it calls startWorker
SDStarted(mode) ==
  /\ sdMode = mode
  /\ sdWorker = "idle" /\ sdServer = "idle"
  /\ sdQueue = [q \in WorkerQueues |-> "open"]
  /\ sdActive = [q \in WorkerQueues |-> FALSE]
  /\ sdTaken = 0
  /\ sdServerQueues = IF mode = "server" THEN "open" ELSE "absent"
  /\ sdConn = [c \in Connections |->
                 IF c \in ServerConnections /\ mode = "worker" THEN "absent" ELSE "open"]
  /\ sdExit = "running"

\* no shutdown under observation
SDIdle == SDStarted("worker")

SDInit == \E mode \in {"worker", "server"} : SDStarted(mode)

\* Bull hands a waiting job to the processor of an open queue, one at a time
SDJobTaken(q) ==
  /\ sdExit = "running"
  /\ sdQueue[q] = "open"
  /\ ~sdActive[q]
  /\ sdTaken < MaxJobs
  /\ sdActive' = [sdActive EXCEPT ![q] = TRUE]
  /\ sdTaken' = sdTaken + 1
  /\ UNCHANGED <<sdMode, sdWorker, sdServer, sdQueue, sdServerQueues, sdConn, sdExit>>
  /\ UNCHANGED <<rlVars, whVars, jobVars, sdkVars, vfVars, sevVars, fanVars>>

\* the job handler returns or throws
SDJobFinished(q) ==
  /\ sdExit = "running"
  /\ sdActive[q]
  /\ sdActive' = [sdActive EXCEPT ![q] = FALSE]
  /\ UNCHANGED <<sdMode, sdWorker, sdServer, sdQueue, sdTaken, sdServerQueues, sdConn, sdExit>>
  /\ UNCHANGED <<rlVars, whVars, jobVars, sdkVars, vfVars, sevVars, fanVars>>

\* SIGTERM or SIGINT: every registered listener runs up to its first await; the
\* server's listener calls db.destroy(), the worker's calls close() on its queues
SDSignal ==
  /\ sdExit = "running"
  /\ sdWorker = "idle"
  /\ sdWorker' = "queues"
  /\ sdQueue' = [q \in WorkerQueues |-> "closing"]
  /\ sdServer' = IF sdMode = "server" THEN "db" ELSE sdServer
  /\ UNCHANGED <<sdMode, sdActive, sdTaken, sdServerQueues, sdConn, sdExit>>
  /\ UNCHANGED <<rlVars, whVars, jobVars, sdkVars, vfVars, sevVars, fanVars>>

\* worker: Promise.all of the queues' close() resolves once no handler of them runs
SDWorkerQueuesClosed ==
  /\ sdExit = "running"
  /\ sdWorker = "queues"
  /\ \A q \in WorkerQueues : ~sdActive[q]
  /\ sdQueue' = [q \in WorkerQueues |-> "closed"]
  /\ sdWorker' = "db"
  /\ UNCHANGED <<sdMode, sdServer, sdActive, sdTaken, sdServerQueues, sdConn, sdExit>>
  /\ UNCHANGED <<rlVars, whVars, jobVars, sdkVars, vfVars, sevVars, fanVars>>

\* worker: await db.destroy()
SDWorkerDbDestroy ==
  /\ sdExit = "running"
  /\ sdWorker = "db"
  /\ sdConn' = [sdConn EXCEPT !["worker.db"] = "closed"]
  /\ sdWorker' = "redis"
  /\ UNCHANGED <<sdMode, sdServer, sdQueue, sdActive, sdTaken, sdServerQueues, sdExit>>
  /\ UNCHANGED <<rlVars, whVars, jobVars, sdkVars, vfVars, sevVars, fanVars>>

\* worker: await redis.quit()
SDWorkerRedisQuit ==
  /\ sdExit = "running"
  /\ sdWorker = "redis"
  /\ sdConn' = [sdConn EXCEPT !["worker.redis"] = "closed"]
  /\ sdWorker' = "exit"
  /\ UNCHANGED <<sdMode, sdServer, sdQueue, sdActive, sdTaken, sdServerQueues, sdExit>>
  /\ UNCHANGED <<rlVars, whVars, jobVars, sdkVars, vfVars, sevVars, fanVars>>

\* worker: process.exit(0)
SDWorkerExit ==
  /\ sdExit = "running"
  /\ sdWorker = "exit"
  /\ sdExit' = "exit0"
  /\ UNCHANGED <<sdMode, sdWorker, sdServer, sdQueue, sdActive, sdTaken, sdServerQueues, sdConn>>
  /\ UNCHANGED <<rlVars, whVars, jobVars, sdkVars, vfVars, sevVars, fanVars>>

\* worker: one of the awaited calls rejects, the catch calls process.exit(1)
SDWorkerFail ==
  /\ sdExit = "running"
  /\ sdWorker \in {"queues", "db", "redis"}
  /\ sdExit' = "exit1"
  /\ UNCHANGED <<sdMode, sdWorker, sdServer, sdQueue, sdActive, sdTaken, sdServerQueues, sdConn>>
  /\ UNCHANGED <<rlVars, whVars, jobVars, sdkVars, vfVars, sevVars, fanVars>>

\* server: await db.destroy() in its own try/catch, then on to redis either way
SDServerDbDestroy(ok) ==
  /\ sdExit = "running"
  /\ sdServer = "db"
  /\ sdConn' = IF ok THEN [sdConn EXCEPT !["server.db"] = "closed"] ELSE sdConn
  /\ sdServer' = "redis"
  /\ UNCHANGED <<sdMode, sdWorker, sdQueue, sdActive, sdTaken, sdServerQueues, sdExit>>
  /\ UNCHANGED <<rlVars, whVars, jobVars, sdkVars, vfVars, sevVars, fanVars>>

\* server: await redis.quit() in its own try/catch
SDServerRedisQuit(ok) ==
  /\ sdExit = "running"
  /\ sdServer = "redis"
  /\ sdConn' = IF ok THEN [sdConn EXCEPT !["server.redis"] = "closed"] ELSE sdConn
  /\ sdServer' = "queues"
  /\ UNCHANGED <<sdMode, sdWorker, sdQueue, sdActive, sdTaken, sdServerQueues, sdExit>>
  /\ UNCHANGED <<rlVars, whVars, jobVars, sdkVars, vfVars, sevVars, fanVars>>

\* server: Promise.all of its own queues' close(); they have no processor, so no
\* handler to wait for
SDServerQueuesClose(ok) ==
  /\ sdExit = "running"
  /\ sdServer = "queues"
  /\ sdServerQueues' = IF ok THEN "closed" ELSE sdServerQueues
  /\ sdServer' = "exit"
  /\ UNCHANGED <<sdMode, sdWorker, sdQueue, sdActive, sdTaken, sdConn, sdExit>>
  /\ UNCHANGED <<rlVars, whVars, jobVars, sdkVars, vfVars, sevVars, fanVars>>

\* server: process.exit(0)
SDServerExit ==
  /\ sdExit = "running"
  /\ sdServer = "exit"
  /\ sdExit' = "exit0"
  /\ UNCHANGED <<sdMode, sdWorker, sdServer, sdQueue, sdActive, sdTaken, sdServerQueues, sdConn>>
  /\ UNCHANGED <<rlVars, whVars, jobVars, sdkVars, vfVars, sevVars, fanVars>>

NextSD ==
  \/ \E q \in WorkerQueues : SDJobTaken(q)
  \/ \E q \in WorkerQueues : SDJobFinished(q)
  \/ SDSignal
  \/ SDWorkerQueuesClosed
  \/ SDWorkerDbDestroy
  \/ SDWorkerRedisQuit
  \/ SDWorkerExit
  \/ SDWorkerFail
  \/ \E ok \in BOOLEAN : SDServerDbDestroy(ok)
  \/ \E ok \in BOOLEAN : SDServerRedisQuit(ok)
  \/ \E ok \in BOOLEAN : SDServerQueuesClose(ok)
  \/ SDServerExit


(***************************************************************************)
(* Specifications                                                          *)
(***************************************************************************)

\* a limiter with no identity under observation
RLIdle ==
  /\ rlTier = "free" /\ rlBucket = "api" /\ rlLog = {} /\ rlExpireAt = NoExpiry
  /\ rlNow = 0 /\ rlTicks = 0
  /\ rlPc = [r \in Reqs |-> "idle"]
  /\ rlLocal = [r \in Reqs |-> [now |-> 0, remaining |-> 0]]
  /\ rlStarted = 0 /\ rlAdmitted = <<>> /\ rlDenied = {} /\ rlFaults = 0
  /\ rlOverlap = FALSE

InitRL == RLInit /\ WHInit /\ JobInit /\ SDKInit /\ VFIdle /\ SevIdle /\ FanInit /\ SDIdle
InitWH == RLIdle /\ WHInit /\ JobInit /\ SDKInit /\ VFIdle /\ SevIdle /\ FanInit /\ SDIdle
InitJob == RLIdle /\ WHInit /\ JobInit /\ SDKInit /\ VFIdle /\ SevIdle /\ FanInit /\ SDIdle

\* the dispatcher after one registerWebhook, before any event was triggered
WHSubscribed ==
  /\ whMap = {1}
  /\ \E events \in (SUBSET EventTypes) \ {{}} :
       whObj = [w \in WhIds |-> IF w = 1
                                 THEN [events |-> events, isActive |-> TRUE,
                                       secret |-> generateSecret(1),
                                       total |-> 0, successful |-> 0, failed |-> 0]
                                 ELSE NoWebhook]
  /\ whCreated = 1
  /\ whTrig = [e \in EvtIds |-> NoTrigger]
  /\ whChain = [e \in EvtIds |-> [w \in WhIds |-> NoChain]]
  /\ whHandled = NoResponse

InitJobSubscribed == RLIdle /\ WHSubscribed /\ JobInit /\ SDKInit /\ VFIdle /\ SevIdle /\ FanInit /\ SDIdle
Init == RLInit /\ WHInit /\ JobInit /\ SDKInit /\ VFInit /\ SevInit /\ FanInit /\ SDInit
Next == NextRL \/ NextWH \/ NextJob \/ NextSDK \/ NextVF \/ NextSev \/ NextFan \/ NextSD

SpecRL == InitRL /\ [][NextRL]_vars
SpecWH == InitWH /\ [][NextWH]_vars
SpecJob == InitJob /\ [][NextJob]_vars
InitSDK == RLIdle /\ WHInit /\ JobInit /\ SDKInit /\ VFIdle /\ SevIdle /\ FanInit /\ SDIdle
SpecSDK == InitSDK /\ [][NextSDK]_vars
InitVerify == RLIdle /\ WHInit /\ JobInit /\ SDKInit /\ VFInit /\ SevIdle /\ FanInit /\ SDIdle
SpecVerify == InitVerify /\ [][NextVF]_vars
InitSeverity == RLIdle /\ WHInit /\ JobInit /\ SDKInit /\ VFIdle /\ SevInit /\ FanInit /\ SDIdle
SpecSeverity == InitSeverity /\ [][NextSev]_vars
InitFan == RLIdle /\ WHInit /\ JobInit /\ SDKInit /\ VFIdle /\ SevIdle /\ FanInit /\ SDIdle
SpecFan == InitFan /\ [][NextFan]_vars
InitShutdown == RLIdle /\ WHInit /\ JobInit /\ SDKInit /\ VFIdle /\ SevIdle /\ FanInit /\ SDInit
SpecShutdown == InitShutdown /\ [][NextSD]_vars
\* the worker running while a webhook subscription exists
SpecJobSubscribed == InitJobSubscribed /\ [][NextJob]_vars
Spec == Init /\ [][Next]_vars

(***************************************************************************)
(* Properties                                                              *)
(***************************************************************************)

\* C1: with no limiter operation failing, the bucket never admits more than its quota
\* within one window: no Limit+1 consecutive admissions of the identity lie less than
\* a window apart (the admissions are recorded in time order).
C1_AdmittedWithinQuota ==
  rlFaults = 0 =>
    \A i \in 1..Len(rlAdmitted) :
      i > Limit => rlAdmitted[i] - rlAdmitted[i - Limit] >= WindowMs

Chains == {whChain[e][w] : e \in EvtIds, w \in WhIds}

\* C2 (as stated): a delivery makes at most 5 HTTP attempts for one event and subscription.
C2_AtMostFiveAttempts == \A c \in Chains : Len(c.hdrs) <= 5

\* C2 (amended): a delivery makes at most 6 HTTP attempts for one event and subscription
\* (the first attempt and 5 retries); it is dropped exactly when the 6th attempt has
\* failed, and a dropped delivery is never attempted or scheduled again.
C2_AtMostSixAttempts ==
  /\ [](\A c \in Chains : Len(c.hdrs) <= 6)
  /\ [](\A c \in Chains : c.st = "dropped" => (Len(c.hdrs) = 6 /\ c.nFail = 6))
  /\ [][\A e \in EvtIds, w \in WhIds :
          whChain[e][w].st = "dropped" => whChain'[e][w] = whChain[e][w]]_vars

C2_Dropped == \E c \in Chains : c.st = "dropped" /\ Len(c.hdrs) = 6

\* C3: the processing-failed event is emitted only on the terminal failure of the job,
\* and then exactly once.
C3_FailedEventOnlyOnTerminalFailure ==
  jobEmitted["file-processing-failed"] > 0 =>
    jobState = "failed" /\ jobEmitted["file-processing-failed"] = 1

\* C4: across all attempts of the job the processing-started event is emitted at most once.
C4_StartedEmittedOnce == jobEmitted["file-processing-started"] <= 1

TerminalStatuses == {"completed", "processed", "failed"}

\* C5: once the status of the file record is terminal, no step changes it.
C5_TerminalStatusIsFinal ==
  [][fileRec.status \in TerminalStatuses => fileRec'.status = fileRec.status]_vars

\* C6: processFileJob runs at most 3 times for the job, and once the job has failed for
\* good (after its 3rd failed attempt) it is never run again.
C6_AtMostThreeRuns ==
  /\ [](jobRuns <= 3 /\ (jobState = "failed" => jobRuns = 3 /\ jobAttemptsMade = 3))
  /\ [][jobState = "failed" => jobState' = "failed" /\ jobRuns' = jobRuns]_vars

C6_Exhausted == jobState = "failed" /\ jobRuns = 3

\* the rows a successful persist of `data` by run `run` consists of
ExpectedRows(run, data) ==
  {InspectionRow(run)}
    \cup (IF data.address THEN {PropertyRow(run)} ELSE {})
    \cup (IF data.findings > 0 THEN {FindingRows(run, data.findings)} ELSE {})

\* C7: the persist stage is all-or-nothing: as long as no run has committed, no row is
\* persisted and the file is not marked processed; once a run has committed, exactly the
\* rows of that run's data are persisted, together with the processed mark of the file.
C7_PersistAllOrNothing ==
  IF fileRec.processedAt = 0
    THEN db = {} /\ fileRec.status # "processed"
    ELSE db = ExpectedRows(fileRec.processedAt, jobParsed) /\ fileRec.status = "processed"

C7_RolledBackThenSaved ==
  jobDiscarded > 0 /\ fileRec.processedAt # 0 /\ Cardinality(db) = 3

RECURSIVE SumTo(_, _)
SumTo(f, n) == IF n = 0 THEN 0 ELSE f[n] + SumTo(f, n - 1)

\* C8: the attempts of one delivery carry X-Webhook-Attempt = 1, 2, ... in order; a
\* delivery that ends with a 2xx after n failures has made n+1 attempts and counted
\* successful once and failed n times; no delivery counts successful twice; and the
\* subscription's counters are the sums over its deliveries.
C8_AttemptsAndCounters ==
  /\ \A c \in Chains :
       /\ \A i \in 1..Len(c.hdrs) : c.hdrs[i] = i
       /\ c.nOk <= 1
       /\ c.nOk = 1 <=> c.st = "ok"
       /\ c.st = "ok" => Len(c.hdrs) = c.nFail + 1
  /\ \A w \in WhIds :
       /\ whObj[w].successful = SumTo([e \in EvtIds |-> whChain[e][w].nOk], MaxEvents)
       /\ whObj[w].failed = SumTo([e \in EvtIds |-> whChain[e][w].nFail], MaxEvents)

C8_TwoFailuresThenOk ==
  \E e \in EvtIds, w \in WhIds :
    /\ whChain[e][w].st = "ok"
    /\ whChain[e][w].hdrs = <<1, 2, 3>>
    /\ whObj[w].successful = 1 /\ whObj[w].failed = 2

\* C9: triggerEvent(type) starts a first delivery attempt for exactly the subscriptions
\* that were registered (hence active) when it was called and whose events contain type.
C9_TriggerRoutesToMatching ==
  \A e \in EvtIds, w \in WhIds :
    (whChain[e][w].st # "none" /\ Len(whChain[e][w].hdrs) >= 1)
      <=> (w \in whTrig[e].registry /\ whTrig[e].type \in whObj[w].events)

C9_OnlyMatching ==
  \E e \in EvtIds, w \in WhIds, v \in WhIds :
    /\ {w, v} \subseteq whTrig[e].registry
    /\ whChain[e][w].st = "none"
    /\ whChain[e][v].st = "ok"

\* C10: the timer of the k-th retry is set to the k-th entry of 1 s, 5 s, 15 s, 60 s,
\* 300 s, and the k-th retry starts no earlier than that long after the failure before it.
C10_RetryDelays ==
  LET seq == <<1000, 5000, 15000, 60000, 300000>> IN
  \A c \in Chains :
    /\ c.st = "timer" =>
         /\ c.attempt \in 1..5
         /\ c.attempt = Len(c.hdrs)
         /\ c.rem = IF seq[c.attempt] > c.waited THEN seq[c.attempt] - c.waited ELSE 0
    /\ Len(c.hdrs) >= 2 => c.gap >= seq[Len(c.hdrs) - 1]

C10_FifthRetryStarted ==
  \E c \in Chains : c.st = "flight" /\ Len(c.hdrs) = 6 /\ c.gap >= 300000

\* C12: starting from an empty api bucket, while a free-tier identity makes its requests
\* one after the other, all within 15 minutes of the first and with no limiter operation
\* failing, the first 100 requests are admitted and none beyond them: no request is
\* denied before 100 have been admitted, and no 101st is admitted.
C12_FirstHundredThenDenied ==
  (/\ rlTier = "free" /\ rlBucket = "api"
   /\ ~rlOverlap /\ rlFaults = 0
   /\ Len(rlAdmitted) > 0 => rlNow - rlAdmitted[1] < WindowMs)
  => (/\ Len(rlAdmitted) <= 100
      /\ rlDenied # {} => Len(rlAdmitted) = 100)

C15_DenialShape ==
  \A d \in rlDenied :
    /\ d.status = 429
    /\ d.success = FALSE
    /\ d.code = "RATE_LIMIT_EXCEEDED"
    /\ d.remaining = 0
    /\ d.retryAfter # NoHeader
    /\ d.retryAfter * 1000 = d.reset - d.at

AllSecrets == {generateSecret(n) : n \in WhIds}
AllBodies == {RequestBody(Payload(t, e)) : t \in EventTypes, e \in EvtIds}
                \cup {<<t>> : t \in EventTypes}

\* C11: the X-Webhook-Signature of every delivery attempt is the hex HMAC-SHA256 of the
\* body of that request under the subscription's secret: the receiver's recomputation
\* from the received body and the shared secret matches, and it does not match under any
\* other secret or for any other body.
C11_SignatureVerifies ==
  \A e \in EvtIds, w \in WhIds :
    LET c == whChain[e][w] IN
    Len(c.hdrs) >= 1 =>
      /\ c.sent.sig = HmacSha256Hex(whObj[w].secret, c.sent.body)
      /\ verifyWebhookSignature(c.sent.body, c.sent.sig, whObj[w].secret)
      /\ \A k \in AllSecrets \ {whObj[w].secret} :
           ~verifyWebhookSignature(c.sent.body, c.sent.sig, k)
      /\ \A b \in AllBodies \ {c.sent.body} :
           ~verifyWebhookSignature(b, c.sent.sig, whObj[w].secret)

C11_RetrySignedForTwoReceivers ==
  \E e \in EvtIds, w \in WhIds, v \in WhIds :
    /\ w # v
    /\ Len(whChain[e][w].hdrs) >= 2 /\ whChain[e][w].st = "ok"
    /\ Len(whChain[e][v].hdrs) >= 1
    /\ whChain[e][w].sent.sig # whChain[e][v].sent.sig
    /\ whChain[e][w].sent.body = whChain[e][v].sent.body

\* C20: no read operation returns a subscription's secret: neither get by id, nor the
\* list of all active subscriptions, nor the statistics of a registered subscription.
C20_ReadsHideSecret ==
  \A w \in whMap :
    /\ "secret" \notin DOMAIN getWebhook(w)
    /\ "secret" \notin DOMAIN getWebhookStats(w)
    /\ w \in getAllWebhooks => "secret" \notin DOMAIN whObj[w]

\* C16: a job whose file kind is unsupported fails with a permanent error and is never
\* retried: its handler runs once and the job is never put into back-off.
C16_PermanentErrorNotRetried ==
  (jobState # "none" /\ ParserFor(jobFileType) = "none")
    => (jobRuns <= 1 /\ jobState # "delayed")

\* the case labels of the switch in processFile
SwitchCases == {"pdf", "docx", "doc", "xlsx", "xls", "jpg", "jpeg", "png", "tiff", "bmp"}

\* C17: for a kind that is not recognized, no parser is ever invoked, an attempt that
\* reaches processFile fails with the unsupported-kind error, and the job never gets
\* past processFile.
C17_UnsupportedKindNoParser ==
  (jobState # "none" /\ toLowerCase(jobFileType) \notin SwitchCases) =>
    /\ jobInvoked = {}
    /\ jobPc = "catch" => jobError = "unsupported"
    /\ jobPc \in {"idle", "status10", "status30", "parse", "catch"}
    /\ fileRec.error \in {NoError, "unsupported"}
    /\ jobState # "completed"

C17_UnsupportedThrown ==
  jobFileType = "txt" /\ jobPc = "catch" /\ jobError = "unsupported" /\ jobInvoked = {}

\* the parser each kind is dispatched to, as stated
StatedParser(kind) ==
  CASE kind = "pdf" -> "pdfParser"
    [] kind \in {"doc", "docx"} -> "wordParser"
    [] kind \in {"xls", "xlsx", "csv"} -> "excelParser"
    [] kind \in {"jpg", "jpeg", "png", "tiff", "bmp"} -> "ocrParser"

\* C18: for every kind in {pdf, doc, docx, xls, xlsx, csv, jpg, jpeg, png, tiff, bmp},
\* once processFile has been entered the kind has been accepted and exactly one parser
\* has been invoked, the one stated for the kind.
C18_EveryKindDispatched ==
  (/\ jobFileType \in {"pdf", "doc", "docx", "xls", "xlsx", "csv",
                        "jpg", "jpeg", "png", "tiff", "bmp"}
   /\ jobRuns >= 1
   /\ jobPc \notin {"status10", "status30", "parse"}) =>
    /\ jobInvoked = {StatedParser(jobFileType)}
    /\ jobError # "unsupported"
    /\ fileRec.error # "unsupported"

\* C19: once the job has completed (or has failed for good) and the worker is done with
\* it, the dispatcher has been handed the processing.completed (processing.failed)
\* event, and every active subscription to that type has got a delivery attempt for it.
C19_TerminalEventDispatched ==
  \A t \in EventTypes :
    (jobState = (IF t = "processing.completed" THEN "completed" ELSE "failed")) =>
      \A w \in getAllWebhooks :
        t \in whObj[w].events =>
          \E e \in EvtIds : whTrig[e].type = t /\ Len(whChain[e][w].hdrs) >= 1

\* C21: unregistering is soft: a subscription that was unregistered is still in the
\* registry, can be looked up by id, and is inactive.
C21_UnregisterIsSoft ==
  \A w \in WhIds :
    (w <= whCreated /\ ~whObj[w].isActive) =>
      /\ w \in whMap
      /\ getWebhook(w) # Undefined

\* a subscription that was registered and then unregistered
Unregistered(w) == w <= whCreated /\ w \notin whMap

\* C25: once a subscription is unregistered, no step sends a request to it (not even a
\* retry scheduled earlier) and no step changes its delivery counters.
C25_NoDeliveryAfterUnregister ==
  [][\A w \in WhIds :
       Unregistered(w) =>
         /\ \A e \in EvtIds : Len(whChain'[e][w].hdrs) = Len(whChain[e][w].hdrs)
         /\ whObj'[w] = whObj[w]]_vars

\* C29: the value triggerEvent returns for an event with matching subscriptions has
\* triggered = successful + failed, successful being the number of matched
\* subscriptions whose delivery attempt got a 2xx response and failed that of the rest.
C29_TriggerResultCounts2xx ==
  \A e \in EvtIds :
    (whTrig[e].settled /\ whTrig[e].result # NoResult) =>
      /\ whTrig[e].result.triggered = whTrig[e].result.successful + whTrig[e].result.failed
      /\ whTrig[e].result.successful = whTrig[e].delivered
      /\ whTrig[e].result.failed = whTrig[e].result.triggered - whTrig[e].delivered

\* C30: for events e1, e2 triggered in this order that both match a subscription, the
\* first request of e1 to the subscription is sent before the first request of e2:
\* when e2's has been sent, e1's has been sent too, and earlier.
C30_FirstAttemptsInTriggerOrder ==
  \A w \in WhIds, e1 \in EvtIds, e2 \in EvtIds :
    (/\ e1 < e2
     /\ whChain[e1][w].st # "none"
     /\ Len(whChain[e2][w].hdrs) >= 1) =>
      /\ Len(whChain[e1][w].hdrs) >= 1
      /\ whChain[e1][w].firstAt < whChain[e2][w].firstAt

C30_TwoEventsOneSubscriber ==
  \E w \in WhIds :
    /\ whTrig[1].type = "processing.completed" /\ whTrig[2].type = "processing.failed"
    /\ whChain[1][w].st = "ok" /\ whChain[2][w].st = "ok"
    /\ whChain[1][w].firstAt < whChain[2][w].firstAt
\* C26 (as stated): after the k-th failed attempt the next attempt is delayed by entry
\* min(k-1, 4) of 1 s, 5 s, 15 s, 60 s, 300 s plus a jitter of at most 20% of that entry
StatedDelays == <<1000, 5000, 15000, 60000, 300000>>
C26_DelayFromSequencePlusJitter ==
  \A k \in 1..Len(jobGaps) :
      LET base == StatedDelays[MinOf({k - 1, 4}) + 1] IN
      /\ base <= jobGaps[k]
      /\ 5 * jobGaps[k] <= 6 * base

\* C26 (amended): after the k-th failed attempt (k < 3) the next attempt is delayed by
\* (2^k - 1) * 2000 ms, that is 2 s and then 6 s, without jitter; so attempt 2 starts at
\* least 1 s after attempt 1 failed and attempt 3 at least 5 s after attempt 2 failed
BullDelays == <<2000, 6000>>
C26_ExponentialBackoff ==
  /\ Len(jobGaps) <= Len(BullDelays)
  /\ \A k \in 1..Len(jobGaps) :
        /\ jobGaps[k] = BullDelays[k]
        /\ jobGaps[k] >= StatedDelays[k]
  /\ jobState = "delayed" => jobAttemptsMade \in 1..Len(BullDelays)
  /\ (jobState = "delayed" /\ jobTimer = 0) => jobWaited = BullDelays[jobAttemptsMade]
C26_ThirdAttemptStarted ==
  /\ Len(jobGaps) = 2
  /\ jobRuns = 3
  /\ jobState = "active"

\* C27: within one attempt the reported progress never decreases, and every progress
\* value reported or stored for the job lies in 0..100
C27_ProgressMonotoneInRange ==
  /\ [](/\ fileRec.progress \in 0..100
        /\ jobLastReported # Null => jobLastReported \in 0..100)
  /\ [][(jobRuns' = jobRuns /\ jobLastReported # Null)
          => jobLastReported' >= jobLastReported]_vars
C27_RetryReportsAgain ==
  /\ jobRuns = 2
  /\ fileRec.error # NoError
  /\ fileRec.progress = 100
  /\ jobLastReported = 100

\* C28 (as stated): the record carries an error payload exactly when its state is failed
C28_ErrorIffFailed ==
  (fileRec.error # NoError) <=> (fileRec.status = "failed")

\* C23 (as stated): the client sends a request again at most maxRetries times, so a
\* request is sent at most maxRetries + 1 times
C23_ResendsAtMostMaxRetries ==
  sdkReq.sends <= configMaxRetries + 1

\* C24 (as stated): processing:complete is emitted only for status completed; a failed
\* file is reported through processing:error
C24_CompleteOnlyWhenCompleted ==
  \A m \in sdkEmitted :
      /\ m.event = "processing:complete" => m.status = "completed"
      /\ (m.status = "failed" /\ m.event # "processing:progress")
           => m.event = "processing:error"

\* C31: only a response with status in [200, 300) ends a delivery as delivered; an
\* attempt that ends with any other status, a timeout or a transport error counts as a
\* failure and, unless it was the last permitted attempt, is followed by a scheduled retry
C31_OnlyTwoXXDelivers ==
  [][\A e \in EvtIds, w \in WhIds :
       LET c == whChain[e][w]
           d == whChain'[e][w] IN
       (c.st = "flight" /\ d # c) =>
         /\ whHandled' \in Responses
         /\ (d.st = "ok") <=> (whHandled'.kind = "response" /\ whHandled'.status \in 200..299)
         /\ d.st = "ok" => (d.nOk = c.nOk + 1 /\ d.nFail = c.nFail)
         /\ d.st # "ok" =>
              /\ d.nFail = c.nFail + 1 /\ d.nOk = c.nOk
              /\ IF Len(c.hdrs) < 6
                   THEN d.st = "timer" /\ d.rem > 0
                   ELSE d.st = "dropped"]_vars
C31_ClientErrorRetried ==
  /\ whHandled = [kind |-> "response", status |-> 404]
  /\ \E c \in Chains : c.st = "timer" /\ c.nFail = 1 /\ c.rem > 0

\* C32 (as stated): at every moment every timestamp held in the bucket's log is at least
\* now - window
C32_LogHoldsOnlyWindow ==
  \A x \in StoredLog : x >= rlNow - WindowMs

\* C40: a denied admission leaves the bucket's log unchanged: from the check that finds
\* the quota used up until the request is answered, the request writes nothing to the key
C40_DenialNotRecorded ==
  [][\A r \in Reqs :
       /\ (rlPc[r] = "check" /\ ~isAllowed(rlNow, Limit, WindowMs) /\ rlPc'[r] # "check")
            => (rlPc'[r] \in {"remaining", "idle"} /\ rlLog' = rlLog)
       /\ (rlPc[r] \in {"remaining", "respond"} /\ rlPc'[r] # rlPc[r])
            => /\ rlPc'[r] \in {"respond", "idle"}
               /\ rlLog' = rlLog
               /\ rlExpireAt' = rlExpireAt]_vars
C40_DeniedAtFullQuota ==
  /\ rlDenied # {}
  /\ Cardinality(StoredLog) = Limit
  /\ \A d \in rlDenied : d.at \notin rlLog

\* C33 (as stated): verifySignature returns false, and never throws, for every signature
\* that does not match, a signature of the wrong length or with a character that is not
\* hex included; it returns true for the matching one
C33_MismatchGivesFalse ==
  vfResult # "none" =>
    IF vfSignature = HexDigest(vfPayload, vfSecret)
      THEN vfResult = "true"
      ELSE vfResult = "false"

\* C34 (as stated): the first matching keyword group decides, tried in the order
\* critical, major, minor; a description with none of the keywords is informational;
\* every severity is one of these four values
StatedSeverity(description) ==
  IF description \cap {"critical", "urgent", "hazard", "danger", "emergency", "immediate"} # {}
    THEN "critical"
  ELSE IF description \cap {"moderate", "concern", "issue", "problem", "attention"} # {}
    THEN "major"
  ELSE IF description \cap {"minor", "cosmetic", "maintenance", "suggestion"} # {}
    THEN "minor"
  ELSE "informational"
C34_SeverityByFirstGroup ==
  sevResult # "none" =>
    /\ sevResult \in {"critical", "major", "minor", "informational"}
    /\ sevResult = StatedSeverity(sevDescription)

\* C36 (as stated): a stage's progress value is published only once the stage has
\* completed: 30 after parsing has returned, 70 after field extraction has returned,
\* 100 after the record has been persisted
C36_ProgressAtStageCompletion ==
  /\ jobLastReported = 30 => "parse" \in jobStagesDone
  /\ jobLastReported = 70 => "extract" \in jobStagesDone
  /\ jobLastReported = 100 => "persist" \in jobStagesDone

\* C37 (as stated): every status the worker writes to the file record is one of queued,
\* active, completed, failed, dead
StatedStates == {"queued", "active", "completed", "failed", "dead"}
C37_RecordedStateInStatedSet ==
  jobRuns > 0 => (fileRec.status = "pending" \/ fileRec.status \in StatedStates)

\* C38 (as stated): at no time are more than 8 webhook deliveries in flight at once
C38_AtMostEightInFlight ==
  InFlight(fanDeliveries) <= 8


====
